---- MODULE Spec2Model ----
(***************************************************************************)
(* A model of the Quahog Mercurial extension (src/quahog.py): the qu-pop   *)
(* and qu-fold commands acting on a commit graph, a working copy and the   *)
(* patches/ directory (series file and patch files) of one root.           *)
(*                                                                         *)
(* Byte strings are modelled as sequences of tokens.  A token is either a  *)
(* single character (" ", "\t", "\n", "\r", "/", "#", "-", a letter) or a  *)
(* literal that the code only ever treats as a unit ("---", "+++", "@@",   *)
(* "diff --git", "[PATCH]", "DO NOT SUBMIT", "#QUAHOG", ...).              *)
(*                                                                         *)
(* The backend (Mercurial with evolve and rebase) is modelled by what the  *)
(* commands rely on: update, commit, amend, fold and rebase of changesets  *)
(* with obsolescence markers, and a transaction whose abort rolls back the *)
(* store and the dirstate but leaves the files of the working copy as they *)
(* are.  A step of the backend or of git apply may fail; which one does is *)
(* an input of the command.  The root is always g3/lib, and qu-pop is run  *)
(* without --rebase.                                                       *)
(***************************************************************************)
EXTENDS Integers, Sequences, FiniteSets, TLC

\* ------------------------------------------------------------------------
\* Byte-string helpers (Python bytes methods used by the code)
\* ------------------------------------------------------------------------

WS == {" ", "\t", "\n", "\r"}

MinOf(S) == CHOOSE x \in S : \A y \in S : x <= y

MaxOf(S) == CHOOSE x \in S : \A y \in S : x >= y

\* bytes.splitlines(keepends=True)
RECURSIVE SplitKeep(_)
SplitKeep(t) ==
    IF t = <<>> THEN <<>>
    ELSE LET n == Len(t)
             brk == {i \in 1..n : t[i] \in {"\n", "\r"}}
         IN  IF brk = {} THEN <<t>>
             ELSE LET i == MinOf(brk)
                      e == IF t[i] = "\r" /\ i < n /\ t[i + 1] = "\n"
                           THEN i + 1 ELSE i
                  IN  <<SubSeq(t, 1, e)>> \o SplitKeep(SubSeq(t, e + 1, n))

\* bytes.rstrip()
RStrip(t) ==
    LET keep == {i \in 1..Len(t) : t[i] \notin WS}
    IN  IF keep = {} THEN <<>> ELSE SubSeq(t, 1, MaxOf(keep))

\* bytes.lstrip()
LStrip(t) ==
    LET keep == {i \in 1..Len(t) : t[i] \notin WS}
    IN  IF keep = {} THEN <<>> ELSE SubSeq(t, MinOf(keep), Len(t))

\* bytes.strip()
Strip(t) == LStrip(RStrip(t))

\* a line of splitlines(keepends=True) without its terminator
DropEnd(line) ==
    LET keep == {i \in 1..Len(line) : line[i] \notin {"\n", "\r"}}
    IN  IF keep = {} THEN <<>> ELSE SubSeq(line, 1, MaxOf(keep))

\* the lines of splitlines(keepends=True) without their terminators
DropEnds(lines) == [i \in 1..Len(lines) |-> DropEnd(lines[i])]

\* bytes.splitlines()
SplitLines(t) == DropEnds(SplitKeep(t))

\* sep.join(parts)
RECURSIVE Join(_, _)
Join(parts, sep) ==
    IF parts = <<>> THEN <<>>
    ELSE IF Len(parts) = 1 THEN parts[1]
    ELSE parts[1] \o sep \o Join(Tail(parts), sep)

\* bytes.startswith(prefix)
StartsWith(t, prefix) ==
    Len(t) >= Len(prefix) /\ SubSeq(t, 1, Len(prefix)) = prefix

\* t[n:]
Drop(t, n) == SubSeq(t, n + 1, Len(t))

\* A faulty variant of Reverse: the order is kept
SameOrder(s) == s

\* reversed(s)
Reverse(s) == [i \in 1..Len(s) |-> s[Len(s) + 1 - i]]

\* the elements of a sequence
Range(s) == {s[i] : i \in 1..Len(s)}

\* ------------------------------------------------------------------------
\* PatchCodec: _separatepatchdescription, _canonicalizepatchcontent,
\* _hgdifftopatch
\* ------------------------------------------------------------------------

\* A variant of IsDiffStart that knows the '--- ' lines only
DiffStartDashesOnly(line) == StartsWith(line, <<"---", " ">>)

\* line.startswith((b'--- ', b'diff --git', b'rename from'))
IsDiffStart(line) ==
    \/ StartsWith(line, <<"---", " ">>)
    \/ StartsWith(line, <<"diff --git">>)
    \/ StartsWith(line, <<"rename from">>)

\* line.startswith(b'Index: ')
IsIndexStart(line) == StartsWith(line, <<"Index:", " ">>)

\* Returns <<diff body, description>>.
_separatepatchdescription(patchcontent) ==
    LET patchlines == SplitKeep(patchcontent) \o << <<>> >>
        n     == Len(patchlines)
        marks == {k \in 1..n : IsDiffStart(patchlines[k]) \/ IsIndexStart(patchlines[k])}
        k     == IF marks = {} THEN n + 1 ELSE MinOf(marks)
        \* first line (1-based) of the diff body
        start == IF marks = {} THEN n
                 ELSE IF IsDiffStart(patchlines[k]) THEN k ELSE k + 2
        desclines == [j \in 1..(k - 1) |-> RStrip(patchlines[j])]
        body  == IF start > n THEN <<>>
                 ELSE Join(SubSeq(patchlines, start, n), <<>>)
    IN  << LStrip(body), RStrip(Join(desclines, <<"\n">>)) >>

\* A variant of CanonMatchEnd whose group 4 is as short as it can be
CanonMatchFirst(t, i, rootpath) ==
    IF ~( /\ (i = 1 \/ t[i - 1] = "\n")
          /\ t[i] \in {"---", "+++"}
          /\ i + 1 <= Len(t)
          /\ t[i + 1] \in WS )
    THEN 0
    ELSE LET ends == {e \in (i + 1)..Len(t) :
                        /\ (e = i + 1 \/ t[e] = "/")
                        /\ e + Len(rootpath) <= Len(t)
                        /\ SubSeq(t, e + 1, e + Len(rootpath)) = rootpath
                        /\ \A j \in (i + 2)..e : t[j] \notin WS}
         IN  IF ends = {} THEN 0 ELSE MinOf(ends)

\* The end of group 4 of br'(^|\n)(---|\+\+\+)(\s)(\S*/)?(rootpath)' for a
\* match whose marker is token i; 0 when there is no match at i.
CanonMatchEnd(t, i, rootpath) ==
    IF ~( /\ (i = 1 \/ t[i - 1] = "\n")
          /\ t[i] \in {"---", "+++"}
          /\ i + 1 <= Len(t)
          /\ t[i + 1] \in WS )
    THEN 0
    ELSE LET ends == {e \in (i + 1)..Len(t) :
                        /\ (e = i + 1 \/ t[e] = "/")
                        /\ e + Len(rootpath) <= Len(t)
                        /\ SubSeq(t, e + 1, e + Len(rootpath)) = rootpath
                        /\ \A j \in (i + 2)..e : t[j] \notin WS}
         IN  IF ends = {} THEN 0 ELSE MaxOf(ends)

RECURSIVE CanonFrom(_, _, _)
CanonFrom(t, i, rootpath) ==
    IF i > Len(t) THEN <<>>
    ELSE LET e == CanonMatchEnd(t, i, rootpath)
         IN  IF e = 0 THEN <<t[i]>> \o CanonFrom(t, i + 1, rootpath)
             ELSE SubSeq(t, i, e) \o CanonFrom(t, e + Len(rootpath) + 1, rootpath)

\* re.sub(abspathpattern, br'\1\2\3\4', patchcontent)
_canonicalizepatchcontent(patchcontent, rootpath) ==
    CanonFrom(patchcontent, 1, rootpath)

\* root.rstrip(b'/')
RStripSlash(root) ==
    LET keep == {i \in 1..Len(root) : root[i] # "/"}
    IN  IF keep = {} THEN <<>> ELSE SubSeq(root, 1, MaxOf(keep))

\* One line of _hgdifftopatch; << >> for a dropped line.
HgDiffLine(line, rootbasepath) ==
    IF StartsWith(line, <<"diff --git">>) THEN <<>>
    ELSE IF StartsWith(line, <<"---", " ">> \o rootbasepath)
    THEN <<"---", " ", "a">> \o Drop(line, 2 + Len(rootbasepath))
    ELSE IF StartsWith(line, <<"+++", " ">> \o rootbasepath)
    THEN <<"+++", " ", "b">> \o Drop(line, 2 + Len(rootbasepath))
    ELSE IF StartsWith(line, <<"@@", " ">>)
    \* line[-2:] == '\r\n' compares bytes with a str and is never true, so
    \* the ending is always line[-1:]
    THEN RStrip(line) \o <<line[Len(line)]>>
    ELSE line

_hgdifftopatch(diff, root) ==
    LET lines == SplitKeep(diff)
    IN  Join([i \in 1..Len(lines) |-> HgDiffLine(lines[i], RStripSlash(root))], <<>>)

\* ------------------------------------------------------------------------
\* ChangesetClassifier: _isquahogchange, _isquahogpatch, PATCHDESC_RE
\* ------------------------------------------------------------------------

\* bytes.upper() on the tokens whose case the code looks at
Upper(tok) ==
    CASE tok = "#quahog" -> "#QUAHOG"
      [] tok = "[patch]" -> "[PATCH]"
      [] tok = "do not submit" -> "DO NOT SUBMIT"
      [] OTHER -> tok

\* b'#QUAHOG' in node.description().upper()
_isquahogchange(desc) == \E i \in 1..Len(desc) : Upper(desc[i]) = "#QUAHOG"

\* node.description().splitlines()[0]
FirstLine(desc) ==
    LET brk == {i \in 1..Len(desc) : desc[i] \in {"\n", "\r"}}
    IN  IF brk = {} THEN desc ELSE SubSeq(desc, 1, MinOf(brk) - 1)

\* The index of the [patch] token of a full match of PATCHDESC_RE
\* (rb'(do not submit\s*)?\[patch\]([^\r\n]+)', IGNORECASE); 0 for no match.
PatchTokenAt(line) ==
    IF line = <<>> THEN 0
    ELSE IF Upper(line[1]) = "[PATCH]" THEN (IF Len(line) > 1 THEN 1 ELSE 0)
    ELSE IF Upper(line[1]) # "DO NOT SUBMIT" THEN 0
    ELSE LET ks == {k \in 2..Len(line) :
                       /\ Upper(line[k]) = "[PATCH]"
                       /\ \A j \in 2..(k - 1) : line[j] \in WS}
         IN  IF ks = {} THEN 0
             ELSE IF Len(line) > MinOf(ks) THEN MinOf(ks) ELSE 0

_isquahogpatch(desc) == PatchTokenAt(FirstLine(desc)) # 0

\* m.group(2)
PatchGroup2(desc) == Drop(FirstLine(desc), PatchTokenAt(FirstLine(desc)))

\* re.sub(rb' +', b'-', patchname)
RECURSIVE SubSpaces(_)
SubSpaces(name) ==
    IF name = <<>> THEN <<>>
    ELSE IF name[1] # " " THEN <<name[1]>> \o SubSpaces(Tail(name))
    ELSE LET rest == {i \in 1..Len(name) : name[i] # " "}
         IN  IF rest = {} THEN <<"-">>
             ELSE <<"-">> \o SubSpaces(Drop(name, MinOf(rest) - 1))

\* The patch file name fold computes for a patch changeset (lines 383-388).
FoldPatchName(desc) ==
    LET patchname == Strip(PatchGroup2(desc))
    IN  IF " " \in Range(patchname) THEN SubSpaces(patchname) ELSE patchname

\* b'\n'.join(repo[rev].description().splitlines()[1:]).strip()
FoldPatchDesc(desc) == Strip(Join(Tail(SplitLines(desc)), <<"\n">>))

\* ------------------------------------------------------------------------
\* The repository: commit graph, working copy, patches/ directory
\* ------------------------------------------------------------------------

\* --root: the canonical root path, "g3/lib"
Root == <<"g3", "/", "lib">>

\* The directories below the root that _ensurenarrowspec adds (repo.wvfs.walk)
RootDirs == {"g3/lib", "g3/lib/patches"}

\* A path with no file behind it (repo.wvfs.isfile is false)
NoFile == <<"<no file>">>

\* rootpath[rootpath.index(b'/') + 1:]
G3RelPath(rootpath) ==
    Drop(rootpath, MinOf({i \in 1..Len(rootpath) : rootpath[i] = "/"}))

\* b'#QUAHOG Modify patches for %s.' % (g3relpath,)
NewBaseMessage(rootpath) ==
    <<"#QUAHOG", " ", "Modify patches for", " ">> \o G3RelPath(rootpath) \o <<".">>

\* b'DO %s SUBMIT [PATCH] %s' % (b'NOT', patchtopop), then the description
PatchMessage(patchtopop, patchdesc) ==
    <<"DO NOT SUBMIT", " ", "[PATCH]", " ">> \o patchtopop
        \o (IF patchdesc # <<>> THEN <<"\n", "\n">> \o patchdesc ELSE <<>>)

\* A changeset.  p1, p2: parent revisions (0: the null revision); succ: the
\* successor recorded when the changeset was rewritten (0: none); series and
\* pfiles: the patches/ directory of its manifest; change: the change it
\* makes below the root, as the patch body that produces it.
NewCommit(desc, p1, phase, series, pfiles, change) ==
    [desc |-> desc, p1 |-> p1, p2 |-> 0, phase |-> phase, obsolete |-> FALSE,
     succ |-> 0, series |-> series, pfiles |-> pfiles, change |-> change]

Revs(cs) == 1..Len(cs)

Parents(cs, r) == {cs[r].p1, cs[r].p2} \ {0}

RECURSIVE IsAncestor(_, _, _)
\* a is d or an ancestor of d (a parent has a smaller revision number)
IsAncestor(cs, a, d) ==
    a <= d /\ (a = d \/ \E p \in Parents(cs, d) : IsAncestor(cs, a, p))

\* The filtered repository: a changeset is hidden once it is obsolete and has
\* no descendant that is not.
Visible(cs, r) ==
    /\ r \in Revs(cs)
    /\ \/ ~cs[r].obsolete
       \/ \E d \in Revs(cs) : ~cs[d].obsolete /\ IsAncestor(cs, r, d)

\* ctx.children()
Children(cs, r) == {c \in Revs(cs) : Visible(cs, c) /\ r \in Parents(cs, c)}

\* obsutil.successorssets(repo, node)[0][0]
RECURSIVE Latest(_, _)
Latest(cs, r) == IF cs[r].succ = 0 THEN r ELSE Latest(cs, cs[r].succ)

\* The set S as an ascending sequence
RECURSIVE SortedSeq(_)
SortedSeq(S) == IF S = {} THEN <<>> ELSE <<MinOf(S)>> \o SortedSeq(S \ {MinOf(S)})

\* A repository value: the changesets and the working copy
Repo(cs, wp, ws, wf) ==
    [commits |-> cs, wcParent |-> wp, wcSeries |-> ws, wcFiles |-> wf]

\* merge.update(ctx, updatecheck=merge.UPDATECHECK_NO_CONFLICT)
Update(R, rev) ==
    [R EXCEPT !.wcParent = rev,
              !.wcSeries = R.commits[rev].series,
              !.wcFiles = R.commits[rev].pfiles]

\* cmdutil.commit(ui, repo, _basiccommitfunc, [], commitopts): the working
\* copy becomes a new draft child of its parent.
Commit(R, message, change) ==
    [R EXCEPT !.commits = Append(R.commits,
                  NewCommit(message, R.wcParent, "draft", R.wcSeries, R.wcFiles, change)),
              !.wcParent = Len(R.commits) + 1]

\* cmdutil.amend(ui, repo, old, {}, [], amendopts): old is replaced by a
\* changeset that also holds the working copy's changes.
Amend(R, old) ==
    LET new == [NewCommit(R.commits[old].desc, R.commits[old].p1, "draft",
                          R.wcSeries, R.wcFiles, R.commits[old].change)
                   EXCEPT !.p2 = R.commits[old].p2]
    IN  [R EXCEPT !.commits = Append([R.commits EXCEPT ![old].obsolete = TRUE,
                                                       ![old].succ = Len(R.commits) + 1],
                                     new),
                  !.wcParent = Len(R.commits) + 1]

\* The changesets rebase.rebase(source=...) moves: the sources and their
\* descendants, obsolete ones skipped.
RebaseSet(cs, sources) ==
    {r \in Revs(cs) : ~cs[r].obsolete /\ \E s \in sources : IsAncestor(cs, s, r)}

\* The three-way merge of the patches/ directory when r is grafted onto np
\* fails when both r and the new parent changed it.
RebaseConflict(cs, r, np) ==
    LET op == cs[r].p1
        own == op = 0 \/ cs[r].series # cs[op].series \/ cs[r].pfiles # cs[op].pfiles
        moved == op = 0 \/ cs[np].series # cs[op].series \/ cs[np].pfiles # cs[op].pfiles
    IN  own /\ moved

RECURSIVE RebaseEach(_, _, _, _)
\* Copies the changesets of todo (ascending) onto dest; a parent that was
\* copied before is replaced by its copy.  Returns [ok, commits].
RebaseEach(cs, todo, moving, dest) ==
    IF todo = <<>> THEN [ok |-> TRUE, commits |-> cs]
    ELSE LET r   == Head(todo)
             op  == cs[r].p1
             np  == IF op \in moving THEN cs[op].succ ELSE dest
             own == op = 0 \/ cs[r].series # cs[op].series \/ cs[r].pfiles # cs[op].pfiles
             new == NewCommit(cs[r].desc, np, "draft",
                              IF own THEN cs[r].series ELSE cs[np].series,
                              IF own THEN cs[r].pfiles ELSE cs[np].pfiles,
                              cs[r].change)
         IN  IF RebaseConflict(cs, r, np) THEN [ok |-> FALSE, commits |-> cs]
             ELSE RebaseEach(Append([cs EXCEPT ![r].obsolete = TRUE,
                                               ![r].succ = Len(cs) + 1], new),
                             Tail(todo), moving, dest)

\* rebase.rebase(ui, repo, source=[...], dest=...).  Returns [ok, repo]; the
\* rebase refuses public changesets.
Rebase(R, sources, dest) ==
    LET moving == RebaseSet(R.commits, sources)
        res == RebaseEach(R.commits, SortedSeq(moving), moving, dest)
    IN  IF \E r \in moving : R.commits[r].phase = "public"
        THEN [ok |-> FALSE, repo |-> R]
        ELSE [ok |-> res.ok, repo |-> [R EXCEPT !.commits = res.commits]]

\* patches = [p for p in origseries.splitlines() if p and not p.startswith(b'#')]
ActiveNames(series) ==
    LET lines == SplitLines(series)
    IN  SelectSeq(lines, LAMBDA p : p # <<>> /\ p[1] # "#")

\* seriesfile.write(b'\n'.join(names) + b'\n')
SeriesText(names) == Join(names, <<"\n">>) \o <<"\n">>

\* The working copy has uncommitted changes (cmdutil.bailifchanged)
PatchDirChanged(R) ==
    \/ R.wcSeries # R.commits[R.wcParent].series
    \/ R.wcFiles # R.commits[R.wcParent].pfiles

\* A faulty variant of _ensurenarrowspec: the narrowspec is never widened
KeepNarrowspec(includes) == includes

\* _ensurenarrowspec: "if adds < includes: return", else the union is set
_ensurenarrowspec(includes) ==
    IF RootDirs \subseteq includes /\ RootDirs # includes THEN includes
    ELSE includes \cup RootDirs

\* A file map without one name (repo[None].forget, repo.wvfs.unlinkpath)
Without(files, name) == [n \in (DOMAIN files) \ {name} |-> files[n]]

\* A file map with one file written
WithFile(files, name, content) ==
    [n \in (DOMAIN files) \cup {name} |-> IF n = name THEN content ELSE files[n]]

\* ------------------------------------------------------------------------
\* Results of a command
\* ------------------------------------------------------------------------

\* The external steps of a command that may fail: git apply, and the
\* backend's commit, amend, fold, rebase and update.  at names the step and
\* n the patch, or the rebase, counted from 1 in the order the command meets
\* them.
NoFailure == [at |-> "none", n |-> 0]

\* What the transaction leaves when an error leaves the "with" block: the
\* store and the dirstate parent are rolled back, the files of the working
\* copy stay as they are.
TxnAbort(pre, raised) ==
    [raised EXCEPT !.commits = pre.commits, !.wcParent = pre.wcParent]

\* The result of a command: outcome is "ok", "warn" (a warning and a plain
\* return) or "abort" (an error left the command); repo is the repository
\* the command leaves; raised is the repository as it was when the error was
\* raised (or at the return); narrow is the narrowspec; started says that the
\* first series-file rewrite of pop had happened; info says what the command
\* resolved and created.
Result(outcome, error, repo, raised, narrow, started, info) ==
    [outcome |-> outcome, error |-> error, repo |-> repo, raised |-> raised,
     narrow |-> narrow, started |-> started, info |-> info]

\* What a command resolved and created: the series file as read, the
\* changeset checked out at the start, the resolved base (--from, --to or
\* inferred), the changeset handed to the fold as its base, whether a new
\* base was created, the patch changesets to fold, the patch names in series
\* order, the patch changesets pop committed, the base the command leaves,
\* and the changesets recorded for the final rebase.
NoInfo ==
    [origseries |-> NoFile, origctx |-> 0, resolved |-> 0, target |-> 0,
     createnew |-> FALSE, chain |-> <<>>, names |-> <<>>, created |-> <<>>,
     newbase |-> 0, childrevs |-> {}]

\* The outcome of a step inside the transaction
Step(ok, error, repo, info) == [ok |-> ok, error |-> error, repo |-> repo, info |-> info]

\* Lines 470-473 and 640-643: the changeset checked out at the start, or its
\* successor when it is no longer in the repository, is checked out again.
RestoreCheckout(R, origctx, info, fail) ==
    IF fail.at = "restore" THEN Step(FALSE, "update failed", R, info)
    ELSE Step(TRUE, "", Update(R, IF Visible(R.commits, origctx) THEN origctx
                                  ELSE Latest(R.commits, origctx)), info)

\* ------------------------------------------------------------------------
\* qu-pop
\* ------------------------------------------------------------------------

RECURSIVE PopWalk(_, _)
\* Lines 540-542: up from the checked-out changeset while it is neither
\* public nor a Quahog changeset (0: the null revision)
PopWalk(cs, rev) ==
    IF rev # 0 /\ cs[rev].phase # "public" /\ ~_isquahogchange(cs[rev].desc)
    THEN PopWalk(cs, cs[rev].p1)
    ELSE rev

\* Lines 572-590 for one patch, the series file already rewritten
PopOne(R1, patchtopop, sep, fail, i) ==
    [ok |-> ~(fail.at = "reverse" /\ fail.n = i + 1),
     error |-> "failed to reverse patch",
     repo |-> [R1 EXCEPT !.wcFiles = Without(@, patchtopop)],
     info |-> [name |-> patchtopop,
               content |-> _canonicalizepatchcontent(sep[1], Root),
               desc |-> sep[2]]]

RECURSIVE PopLoop(_, _, _, _, _, _)
\* Lines 568-590, iteration i (0-based) of patchestopop: rewrite the series
\* file, read and split the patch file, delete it, reverse-apply the diff.
PopLoop(R, patches, patchestopop, i, patchinfos, fail) ==
    IF i >= patchestopop \/ i >= Len(patches)
    THEN [ok |-> TRUE, error |-> "", repo |-> R, patchinfos |-> patchinfos]
    ELSE IF patches[Len(patches) - i] \notin DOMAIN R.wcFiles
    THEN [ok |-> FALSE, error |-> "patch file not found",
          repo |-> [R EXCEPT !.wcSeries =
                       SeriesText(SubSeq(patches, 1, Len(patches) - i - 1))],
          patchinfos |-> patchinfos]
    ELSE LET one == PopOne([R EXCEPT !.wcSeries =
                               SeriesText(SubSeq(patches, 1, Len(patches) - i - 1))],
                           patches[Len(patches) - i],
                           _separatepatchdescription(R.wcFiles[patches[Len(patches) - i]]),
                           fail, i)
         IN  IF ~one.ok
             THEN [ok |-> FALSE, error |-> one.error, repo |-> one.repo,
                   patchinfos |-> patchinfos]
             ELSE PopLoop(one.repo, patches, patchestopop, i + 1,
                          Append(patchinfos, one.info), fail)

RECURSIVE PopReapply(_, _, _, _, _)
\* Lines 609-633 over todo = reversed(patchinfos): forward-apply and commit.
PopReapply(R, todo, j, leaves, fail) ==
    IF todo = <<>> THEN [ok |-> TRUE, error |-> "", repo |-> R, leaves |-> leaves]
    ELSE IF fail.at = "apply" /\ fail.n = j
    THEN [ok |-> FALSE, error |-> "failed to apply patch", repo |-> R, leaves |-> leaves]
    ELSE PopReapply(Commit(R, PatchMessage(Head(todo).name, Head(todo).desc),
                           Head(todo).content),
                    Tail(todo), j + 1, Append(leaves, Len(R.commits) + 1), fail)

\* Lines 634-643: the rebase onto the leaf and the checkout restored
PopRebased(origctx, info, fail, rb) ==
    IF ~rb.ok THEN Step(FALSE, "rebase failed", rb.repo, info)
    ELSE RestoreCheckout(rb.repo, origctx, info, fail)

\* Lines 609-639: after the patches were committed.  "leaf" is unbound when
\* no patch was committed.
PopReapplied(origctx, rebaserevs, info, fail, re) ==
    IF ~re.ok THEN Step(FALSE, re.error, re.repo, info)
    ELSE PopRebased(origctx, [info EXCEPT !.created = re.leaves], fail,
                    IF rebaserevs = {} THEN [ok |-> TRUE, repo |-> re.repo]
                    ELSE IF re.leaves = <<>> \/ fail.at = "rebase"
                    THEN [ok |-> FALSE, repo |-> re.repo]
                    ELSE Rebase(re.repo, rebaserevs, re.leaves[Len(re.leaves)]))

\* Lines 595-608: the base committed (a new one) or amended.  commit returns
\* None when nothing changed, and the assert fails; rewriteutil.precheck
\* refuses a public changeset; an amend of nothing returns the old changeset.
\* A variant of PopBase without rewriteutil.precheck before the amend
PopBaseNoPrecheck(R, fromctx, createnew, fail) ==
    IF fail.at = "base" \/ (createnew /\ ~PatchDirChanged(R))
    THEN [ok |-> FALSE, repo |-> R]
    ELSE [ok |-> TRUE,
          repo |-> IF createnew THEN Commit(R, NewBaseMessage(Root), <<>>)
                   ELSE IF PatchDirChanged(R) THEN Amend(R, fromctx)
                   ELSE R]

PopBase(R, fromctx, createnew, fail) ==
    IF \/ fail.at = "base"
       \/ createnew /\ ~PatchDirChanged(R)
       \/ ~createnew /\ R.commits[fromctx].phase = "public"
    THEN [ok |-> FALSE, repo |-> R]
    ELSE [ok |-> TRUE,
          repo |-> IF createnew THEN Commit(R, NewBaseMessage(Root), <<>>)
                   ELSE IF PatchDirChanged(R) THEN Amend(R, fromctx)
                   ELSE R]

\* Lines 609-633 entered with the base in place
PopBased(origctx, rebaserevs, info, fail, patchinfos, base) ==
    IF ~base.ok THEN Step(FALSE, "base commit failed", base.repo, info)
    ELSE PopReapplied(origctx, rebaserevs,
                      [info EXCEPT !.newbase = base.repo.wcParent], fail,
                      PopReapply(base.repo, Reverse(patchinfos), 1, <<>>, fail))

\* Lines 591-608 entered after the loop over the patches
PopLooped(origctx, fromctx, createnew, rebaserevs, info, fail, loop) ==
    IF ~loop.ok THEN Step(FALSE, loop.error, loop.repo, info)
    ELSE PopBased(origctx, rebaserevs,
                  [info EXCEPT !.names = [i \in 1..Len(loop.patchinfos) |->
                                  loop.patchinfos[Len(loop.patchinfos) + 1 - i].name]],
                  fail, loop.patchinfos,
                  PopBase(loop.repo, fromctx, createnew, fail))

\* The part of pop inside "try:" (lines 566-643)
PopTry(R, origctx, fromctx, createnew, rebaserevs, patches, patchestopop, info, fail) ==
    PopLooped(origctx, fromctx, createnew, rebaserevs, info, fail,
              PopLoop(R, patches, patchestopop, 0, <<>>, fail))

\* A handler that raises again without writing the series file back: a
\* faulty variant of PopHandler
PopHandlerNoRestore(R, origseries) == << R, TRUE >>

\* The "except:" handler of pop (lines 644-647): the series file is written
\* back and the error is raised again.  Returns <<repo, raises>>.
PopHandler(R, origseries) == << [R EXCEPT !.wcSeries = origseries], TRUE >>

\* Lines 644-647 with what the handler leaves
PopHandled(R, nar1, started, try, handled) ==
    IF handled[2]
    THEN Result("abort", try.error, TxnAbort(R, handled[1]), handled[1], nar1,
                started, try.info)
    ELSE Result("ok", try.error, handled[1], handled[1], nar1, started, try.info)

\* Lines 566-647: the try block and its handler
PopTried(R, nar1, started, origseries, try) ==
    IF try.ok
    THEN Result("ok", "", try.repo, try.repo, nar1, started, try.info)
    ELSE PopHandled(R, nar1, started, try, PopHandler(try.repo, origseries))

\* Lines 558-565: the active patches and the number to pop
PopSeries(R, R1, nar1, args, origctx, fromctx, createnew, rebaserevs, info, fail, patches) ==
    IF args.all /\ Len(patches) < 1
    THEN Result("warn", "no patches to pop", R1, R1, nar1, FALSE, info)
    ELSE PopTried(R, nar1, Len(patches) >= 1, R1.wcSeries,
                  PopTry(R1, origctx, fromctx, createnew, rebaserevs, patches,
                         IF args.all THEN Len(patches) ELSE args.count, info, fail))

\* Lines 547-557: the base checked out, the revisions to rebase, the series
\* file read
PopCheckedOut(R, R1, nar1, args, origctx, fromctx, createnew, fail) ==
    IF R1.wcSeries = NoFile
    THEN Result("abort", "no such file", TxnAbort(R, R1), R1, nar1, FALSE,
                [NoInfo EXCEPT !.origctx = origctx, !.resolved = fromctx])
    ELSE PopSeries(R, R1, nar1, args, origctx, fromctx, createnew,
                   IF createnew \/ R.commits[fromctx].phase = "public" THEN {}
                   ELSE Children(R.commits, fromctx),
                   [NoInfo EXCEPT !.origctx = origctx, !.resolved = fromctx,
                                  !.createnew = createnew,
                                  !.origseries = R1.wcSeries,
                                  !.childrevs =
                                      IF createnew \/ R.commits[fromctx].phase = "public"
                                      THEN {} ELSE Children(R.commits, fromctx)],
                   fail, ActiveNames(R1.wcSeries))

\* Lines 531-547: the base resolved and checked out
PopResolved(R, nar1, args, fail, fromctx, createnew) ==
    IF args.from # 0 /\ ~_isquahogchange(R.commits[fromctx].desc)
    THEN Result("abort", "not a quahog changset", R, R, nar1, FALSE,
                [NoInfo EXCEPT !.origctx = R.wcParent])
    ELSE PopCheckedOut(R, Update(R, fromctx), nar1, args, R.wcParent, fromctx,
                       createnew, fail)

\* Lines 521-546 with the walk up from the checkout done
PopStarted(R, nar1, dirty, unf, args, fail, walked) ==
    IF args.count < 1
    THEN Result("warn", "no pops requested", R, R, nar1, FALSE,
                [NoInfo EXCEPT !.origctx = R.wcParent])
    ELSE IF dirty \/ PatchDirChanged(R)
    THEN Result("abort", "uncommitted changes", R, R, nar1, FALSE,
                [NoInfo EXCEPT !.origctx = R.wcParent])
    ELSE IF unf
    THEN Result("abort", "unfinished operation", R, R, nar1, FALSE,
                [NoInfo EXCEPT !.origctx = R.wcParent])
    ELSE IF args.from # 0 THEN PopResolved(R, nar1, args, fail, args.from, FALSE)
    ELSE IF walked # 0 /\ _isquahogchange(R.commits[walked].desc)
    THEN PopResolved(R, nar1, args, fail, walked, FALSE)
    ELSE PopResolved(R, nar1, args, fail, R.wcParent, TRUE)

\* The pop command, lines 519-647, on repository R with narrowspec includes
\* nar, the working copy dirty or not, an operation unfinished or not.
\* args: [from (0: not given), count, all].
pop(R, nar, dirty, unf, args, fail) ==
    PopStarted(R, _ensurenarrowspec(nar), dirty, unf, args, fail,
               PopWalk(R.commits, R.wcParent))

\* ------------------------------------------------------------------------
\* qu-fold
\* ------------------------------------------------------------------------

\* A variant of _islinear that looks at the first parent only
IsLinearFirstParent(cs, revs) ==
    \A r \in revs :
        r = MinOf(revs) \/ MaxOf({q \in revs : q < r}) = cs[r].p1

\* _islinear(repo, revspec): in topological order every changeset has the
\* one before it among its parents.
_islinear(cs, revs) ==
    \A r \in revs :
        r = MinOf(revs) \/ MaxOf({q \in revs : q < r}) \in Parents(cs, r)

\* _getone(repo, b'ancestor((%s)^)' % (foldrevset,)): the greatest common
\* ancestor of the first parents; 0 when the revset is empty.
AncestorOfParents(cs, revs) ==
    LET ps == {cs[r].p1 : r \in revs} \ {0}
        common == {a \in Revs(cs) : \A q \in ps : IsAncestor(cs, a, q)}
    IN  IF ps = {} \/ common = {} THEN 0 ELSE MaxOf(common)

RECURSIVE FoldWalkAny(_, _)
\* A variant of the walk that goes up through every draft changeset that is
\* not a Quahog changeset, patch or not
FoldWalkAny(cs, rev) ==
    IF rev = 0 THEN 0
    ELSE IF ~(cs[rev].phase = "public" \/ _isquahogchange(cs[rev].desc))
    THEN (IF Cardinality(Parents(cs, rev)) > 1 THEN -1 ELSE FoldWalkAny(cs, cs[rev].p1))
    ELSE rev

RECURSIVE FoldWalk(_, _)
\* Lines 343-348: up from the checked-out changeset through patch changesets.
\* Returns the changeset reached, 0 for the null revision, -1 for the
\* "multiple parents" abort.
FoldWalk(cs, rev) ==
    IF rev = 0 THEN 0
    ELSE IF _isquahogpatch(cs[rev].desc)
            /\ ~(cs[rev].phase = "public" \/ _isquahogchange(cs[rev].desc))
    THEN (IF Cardinality(Parents(cs, rev)) > 1 THEN -1 ELSE FoldWalk(cs, cs[rev].p1))
    ELSE rev

\* [ctx for ctx in patchctx.children() if _isquahogpatch(ctx)]
PatchChildren(cs, r) == {c \in Children(cs, r) : _isquahogpatch(cs[c].desc)}

RECURSIVE ChainWalkFirst(_, _, _, _, _)
\* A variant of the walk that takes the first patch child when there are
\* several
ChainWalkFirst(cs, patchctx, patchrevs, foldall, foldcount) ==
    IF ~(foldall \/ Len(patchrevs) # foldcount) THEN [ok |-> TRUE, revs |-> patchrevs]
    ELSE IF PatchChildren(cs, patchctx) = {} THEN [ok |-> TRUE, revs |-> patchrevs]
    ELSE ChainWalkFirst(cs, MinOf(PatchChildren(cs, patchctx)),
                        Append(patchrevs, MinOf(PatchChildren(cs, patchctx))),
                        foldall, foldcount)

RECURSIVE ChainWalk(_, _, _, _, _)
\* Lines 364-375: the patch children below toctx.  Returns [ok, revs].
ChainWalk(cs, patchctx, patchrevs, foldall, foldcount) ==
    IF ~(foldall \/ Len(patchrevs) # foldcount) THEN [ok |-> TRUE, revs |-> patchrevs]
    ELSE IF Cardinality(PatchChildren(cs, patchctx)) > 1
    THEN [ok |-> FALSE, revs |-> patchrevs]
    ELSE IF PatchChildren(cs, patchctx) = {} THEN [ok |-> TRUE, revs |-> patchrevs]
    ELSE ChainWalk(cs, MinOf(PatchChildren(cs, patchctx)),
                   Append(patchrevs, MinOf(PatchChildren(cs, patchctx))),
                   foldall, foldcount)

\* One line of the backend's diff (patch.diff with noprefix and git) of a
\* change below the root.
BackendDiffLine(line, rootpath) ==
    IF StartsWith(line, <<"---", " ", "a">>)
    THEN <<"diff --git", " ">> \o rootpath \o DropEnd(Drop(line, 3)) \o <<"\n">>
         \o <<"---", " ">> \o rootpath \o Drop(line, 3)
    ELSE IF StartsWith(line, <<"+++", " ", "b">>)
    THEN <<"+++", " ">> \o rootpath \o Drop(line, 3)
    ELSE line

\* b''.join(patch.diff(repo, node1=ctx1, node2=ctx2, match=m, opts=diffopts))
BackendDiff(change, rootpath) ==
    Join([i \in 1..Len(SplitKeep(change)) |->
             BackendDiffLine(SplitKeep(change)[i], rootpath)], <<>>)

\* patches[patchname] = ... on a dict, which keeps the place of a key it
\* already holds
DictPut(dict, key, value) ==
    IF \E i \in 1..Len(dict) : dict[i][1] = key
    THEN [i \in 1..Len(dict) |-> IF dict[i][1] = key THEN <<key, value>> ELSE dict[i]]
    ELSE Append(dict, <<key, value>>)

\* Lines 392-411: the content of the patch file
FoldPatchContent(patchdesc, patchdiff) ==
    IF patchdesc # <<>> THEN patchdesc \o <<"\n", "\n">> \o patchdiff
    ELSE patchdiff

\* Lines 381-411 for one patch changeset: <<patchname, patch file content>>
FoldPatchFile(c) ==
    << FoldPatchName(c.desc),
       FoldPatchContent(FoldPatchDesc(c.desc),
                        _hgdifftopatch(BackendDiff(c.change, Root), Root)) >>

RECURSIVE FoldPatches(_, _, _)
\* Lines 380-411: the dict of patch files, in the order of patchrevs
FoldPatches(cs, patchrevs, dict) ==
    IF patchrevs = <<>> THEN dict
    ELSE FoldPatches(cs, Tail(patchrevs),
                     DictPut(dict, FoldPatchName(cs[Head(patchrevs)].desc),
                             FoldPatchFile(cs[Head(patchrevs)])[2]))

RECURSIVE WriteFiles(_, _)
\* Lines 442-446: every patch file is written
WriteFiles(files, dict) ==
    IF dict = <<>> THEN files
    ELSE WriteFiles(WithFile(files, Head(dict)[1], Head(dict)[2]), Tail(dict))

\* Lines 452-453: open(seriespath, 'ab') and one write
AppendSeries(series, names) ==
    (IF series = NoFile THEN <<>> ELSE series) \o SeriesText(names)

\* The names of a dict of patch files: patches.keys()
DictKeys(dict) == [i \in 1..Len(dict) |-> dict[i][1]]

\* The changeset the fold creates (evolve's rewrite): the description of the
\* base, the parent of the root, the content of the head
FoldedCommit(cs, base, root, head) ==
    NewCommit(cs[base].desc, cs[root].p1, "draft", cs[head].series,
              cs[head].pfiles, <<>>)

\* _fold_changesets(txn, repo, revs) with revs = [base] + patchrevs.  Returns
\* [ok, repo, newid]; evolve's foldcheck refuses public changesets and
\* anything but one chain.
_fold_changesets(R, base, patchrevs) ==
    IF \/ \E r \in {base} \cup Range(patchrevs) : R.commits[r].phase = "public"
       \/ ~_islinear(R.commits, {base} \cup Range(patchrevs))
    THEN [ok |-> FALSE, repo |-> R, newid |-> 0]
    ELSE [ok |-> TRUE, newid |-> Len(R.commits) + 1,
          repo |-> [R EXCEPT !.commits =
              Append([r \in Revs(R.commits) |->
                         IF r \in {base} \cup Range(patchrevs)
                         THEN [R.commits[r] EXCEPT !.obsolete = TRUE,
                                                   !.succ = Len(R.commits) + 1]
                         ELSE R.commits[r]],
                     FoldedCommit(R.commits, base,
                                  MinOf({base} \cup Range(patchrevs)),
                                  MaxOf({base} \cup Range(patchrevs))))]]

\* A resolved target: the error ("" for none), the changeset, and whether a
\* new Quahog changeset is to be created on it
Target(error, toctx, createnew) ==
    [error |-> error, toctx |-> toctx, createnew |-> createnew]

\* A faulty variant of InferredTarget: whatever was inferred is folded into
ReuseTarget(cs, rev) == Target("", rev, FALSE)

\* Lines 336-341 and 349-354: a target that was inferred
InferredTarget(cs, rev) ==
    IF ~_isquahogchange(cs[rev].desc) THEN Target("", rev, TRUE)
    ELSE IF cs[rev].phase = "public" THEN Target("", rev, TRUE)
    ELSE Target("", rev, FALSE)

\* Lines 319-354: the changeset to fold into, given the ancestor of the
\* parents of --rev and the changeset the walk up from the checkout reaches
FoldTarget(cs, to, foldrevset, anc, walked) ==
    IF to # 0
    THEN IF ~_isquahogchange(cs[to].desc) THEN Target("not a quahog changeset", to, FALSE)
         ELSE IF cs[to].phase = "public" THEN Target("immutable quahog changeset", to, FALSE)
         ELSE IF foldrevset # {} /\ anc = 0 THEN Target("internal error: empty revset", to, FALSE)
         ELSE IF foldrevset # {} /\ anc # to THEN Target("--to must be parent of --rev", to, FALSE)
         ELSE Target("", to, FALSE)
    ELSE IF foldrevset # {}
    THEN IF anc = 0 THEN Target("internal error: empty revset", 0, FALSE)
         ELSE IF _isquahogpatch(cs[anc].desc) THEN Target("--rev parent cannot be a patch", anc, FALSE)
         ELSE InferredTarget(cs, anc)
    ELSE IF walked = -1 THEN Target("multiple parents", 0, FALSE)
         ELSE IF walked = 0 THEN Target("internal error: null revision", 0, FALSE)
         ELSE InferredTarget(cs, walked)

\* Lines 355-375: the patch changesets to fold.  Returns [error, revs].
FoldChain(cs, toctx, foldrevset, walk) ==
    IF foldrevset # {}
    THEN IF \E r \in foldrevset : ~_isquahogpatch(cs[r].desc)
         THEN [error |-> "must be quahog patch to fold", revs |-> <<>>]
         ELSE IF \E r \in foldrevset : cs[r].phase = "public"
         THEN [error |-> "cannot fold immutable patch", revs |-> <<>>]
         ELSE [error |-> "", revs |-> SortedSeq(foldrevset)]
    ELSE IF ~walk.ok
    THEN [error |-> "ambiguous chain: multiple patch children", revs |-> walk.revs]
    ELSE [error |-> "", revs |-> walk.revs]

\* A variant of ChildRevs that records no children
NoChildRevs(cs, patchrevs) == {}

\* Lines 412-415: the non-public children of the patches that are not
\* patches to fold themselves
ChildRevs(cs, patchrevs) ==
    {c \in Revs(cs) : /\ Parents(cs, c) \cap Range(patchrevs) # {}
                      /\ cs[c].phase # "public"
                      /\ Visible(cs, c)} \ Range(patchrevs)

\* Lines 436-437: the revisions replaced by their successors
NewBased(ok, error, R, newbase, patchrevs, childrevs) ==
    [ok |-> ok, error |-> error, repo |-> R, toctx |-> newbase,
     patchrevs |-> [i \in 1..Len(patchrevs) |-> Latest(R.commits, patchrevs[i])],
     childrevs |-> {Latest(R.commits, c) : c \in childrevs}]

\* Lines 429-437: the patches rebased onto the new base
FoldNewBaseRebased(newbase, patchrevs, childrevs, rb) ==
    IF ~rb.ok THEN NewBased(FALSE, "rebase failed", rb.repo, newbase, <<>>, {})
    ELSE NewBased(TRUE, "", rb.repo, newbase, patchrevs, childrevs)

\* Lines 416-437: a new base on toctx and the patches rebased onto it.
\* Returns [ok, error, repo, toctx, patchrevs, childrevs].
FoldCreateNew(R, toctx, patchrevs, childrevs, fail) ==
    IF fail.at = "base"
    THEN NewBased(FALSE, "commit failed", Update(R, toctx), 0, <<>>, {})
    ELSE FoldNewBaseRebased(Len(R.commits) + 1, patchrevs, childrevs,
             IF fail.at = "rebase" /\ fail.n = 1
             THEN [ok |-> FALSE,
                   repo |-> Commit(Update(R, toctx), NewBaseMessage(Root), <<>>)]
             ELSE Rebase(Commit(Update(R, toctx), NewBaseMessage(Root), <<>>),
                         Range(patchrevs), Len(R.commits) + 1))

\* Lines 462-473: the recorded children rebased, the checkout restored
FoldRebased(origctx, info, fail, rb) ==
    IF ~rb.ok THEN Step(FALSE, "rebase failed", rb.repo, info)
    ELSE RestoreCheckout(rb.repo, origctx, info, fail)

\* Lines 454-469: the amend of the folded changeset, then the rebase
FoldWritten(R4, origctx, newid, childrevs, info, fail) ==
    IF fail.at = "amend" THEN Step(FALSE, "amend failed", R4, info)
    ELSE FoldRebased(origctx, [info EXCEPT !.newbase = Len(R4.commits) + 1], fail,
             IF childrevs = {} THEN [ok |-> TRUE, repo |-> Amend(R4, newid)]
             ELSE IF fail.at = "rebase" /\ fail.n = 2
             THEN [ok |-> FALSE, repo |-> Amend(R4, newid)]
             ELSE Rebase(Amend(R4, newid), childrevs, Len(R4.commits) + 1))

\* Lines 440-453: the folded changeset checked out, the patch files written
\* and the names appended to the series file
FoldWrite(R3, patches) ==
    [R3 EXCEPT !.wcFiles = WriteFiles(@, patches),
               !.wcSeries = AppendSeries(@, DictKeys(patches))]

\* Lines 438-453 with the changesets folded
FoldFolded(Rcn, origctx, childrevs, patches, info, fail, fc) ==
    IF ~fc.ok \/ fail.at = "fold" THEN Step(FALSE, "fold failed", Rcn, info)
    ELSE FoldWritten(FoldWrite(Update(fc.repo, fc.newid), patches), origctx,
                     fc.newid, childrevs, [info EXCEPT !.created = <<fc.newid>>],
                     fail)

\* Lines 416-438 with the base in place
FoldBased(origctx, patches, info, fail, cn) ==
    IF ~cn.ok THEN Step(FALSE, cn.error, cn.repo, info)
    ELSE FoldFolded(cn.repo, origctx, cn.childrevs, patches,
                    [info EXCEPT !.target = cn.toctx], fail,
                    _fold_changesets(cn.repo, cn.toctx, cn.patchrevs))

\* Lines 379-473: the fold proper, inside the transaction
FoldRun(R, origctx, toctx, createnew, patchrevs, childrevs, patches, fail) ==
    FoldBased(origctx, patches,
              [NoInfo EXCEPT !.origctx = origctx, !.resolved = toctx,
                             !.createnew = createnew, !.chain = patchrevs,
                             !.names = DictKeys(patches), !.childrevs = childrevs],
              fail,
              IF createnew THEN FoldCreateNew(R, toctx, patchrevs, childrevs, fail)
              ELSE [ok |-> TRUE, error |-> "", repo |-> R, toctx |-> toctx,
                    patchrevs |-> patchrevs, childrevs |-> childrevs])

\* Lines 376-473 with the outcome of the fold proper
FoldRan(R, nar1, run) ==
    IF run.ok THEN Result("ok", "", run.repo, run.repo, nar1, FALSE, run.info)
    ELSE Result("abort", run.error, TxnAbort(R, run.repo), run.repo, nar1, FALSE,
                run.info)

\* Lines 355-378 with the chain resolved
FoldChained(R, nar1, tgt, fail, chain) ==
    IF chain.error # ""
    THEN Result("abort", chain.error, R, R, nar1, FALSE,
                [NoInfo EXCEPT !.origctx = R.wcParent, !.resolved = tgt.toctx,
                               !.createnew = tgt.createnew])
    ELSE IF chain.revs = <<>>
    THEN Result("warn", "no patches to fold", R, R, nar1, FALSE,
                [NoInfo EXCEPT !.origctx = R.wcParent, !.resolved = tgt.toctx,
                               !.createnew = tgt.createnew])
    ELSE FoldRan(R, nar1,
                 FoldRun(R, R.wcParent, tgt.toctx, tgt.createnew, chain.revs,
                         ChildRevs(R.commits, chain.revs),
                         FoldPatches(R.commits, chain.revs, <<>>), fail))

\* Lines 318-375 with the target resolved
FoldTargeted(R, nar1, args, foldcount, fail, tgt) ==
    IF tgt.error # ""
    THEN Result("abort", tgt.error, R, R, nar1, FALSE,
                [NoInfo EXCEPT !.origctx = R.wcParent, !.resolved = tgt.toctx])
    ELSE FoldChained(R, nar1, tgt, fail,
                     FoldChain(R.commits, tgt.toctx, args.rev,
                               IF args.rev # {} THEN [ok |-> TRUE, revs |-> <<>>]
                               ELSE ChainWalk(R.commits, tgt.toctx, <<>>, args.all,
                                              foldcount)))

\* Lines 301-354 with --count defaulted
FoldStarted(R, nar1, dirty, unf, args, foldcount, fail) ==
    IF args.count < 0
    THEN Result("warn", "--count must be positive", R, R, nar1, FALSE,
                [NoInfo EXCEPT !.origctx = R.wcParent])
    ELSE IF args.rev # {} /\ args.all
    THEN Result("abort", "cannot provide both --rev and --all", R, R, nar1, FALSE,
                [NoInfo EXCEPT !.origctx = R.wcParent])
    ELSE IF args.rev # {} /\ foldcount # 0
    THEN Result("abort", "cannot provide both --rev and --count", R, R, nar1, FALSE,
                [NoInfo EXCEPT !.origctx = R.wcParent])
    ELSE IF dirty \/ PatchDirChanged(R)
    THEN Result("abort", "uncommitted changes", R, R, nar1, FALSE,
                [NoInfo EXCEPT !.origctx = R.wcParent])
    ELSE IF unf
    THEN Result("abort", "unfinished operation", R, R, nar1, FALSE,
                [NoInfo EXCEPT !.origctx = R.wcParent])
    ELSE IF R.wcSeries = NoFile
    THEN Result("abort", "no such file", R, R, nar1, FALSE,
                [NoInfo EXCEPT !.origctx = R.wcParent])
    ELSE IF args.rev # {} /\ ~_islinear(R.commits, args.rev)
    THEN Result("abort", "--rev patches must be linear", R, R, nar1, FALSE,
                [NoInfo EXCEPT !.origctx = R.wcParent])
    ELSE FoldTargeted(R, nar1, args, foldcount, fail,
                      FoldTarget(R.commits, args.to, args.rev,
                                 AncestorOfParents(R.commits, args.rev),
                                 IF args.to # 0 \/ args.rev # {} THEN 0
                                 ELSE FoldWalk(R.commits, R.wcParent)))

\* The fold command, lines 294-473.  args: [to (0: not given), count, all,
\* rev (the set --rev names, {} when not given)].
fold(R, nar, dirty, unf, args, fail) ==
    FoldStarted(R, _ensurenarrowspec(nar), dirty, unf, args,
                IF args.rev = {} /\ ~args.all /\ args.count = 0 THEN 1
                ELSE args.count,
                fail)

\* ------------------------------------------------------------------------
\* The state machine: a repository and the commands run on it
\* ------------------------------------------------------------------------

\* Bounds of the model
MaxCommits == 6

MaxCount == 2

MaxDag == 4

VARIABLES
    commits,    \* the changesets, by revision number
    wcParent,   \* the checked-out changeset
    wcSeries,   \* the content of <root>/patches/series, or NoFile
    wcFiles,    \* the patch files under <root>/patches/: name -> content
    narrow,     \* the directories the narrowspec includes
    last,       \* the command run last, what it was given and what it did
    prev,       \* the command run before it
    sched       \* the repository lock and the invocations that run step by step

vars == <<commits, wcParent, wcSeries, wcFiles, narrow, last, prev, sched>>

Current == Repo(commits, wcParent, wcSeries, wcFiles)

\* A change to file f below the root, as a Quilt patch body
Change(f) ==
    <<"---", " ", "a", "/", f, "\n", "+++", " ", "b", "/", f, "\n",
      "@@", " ", "-1", " ", "+1", " ", "@@", "\n", "+", f, "\n">>

\* The patch files of the initial series: a.diff with a description
InitFiles(series) ==
    IF series = NoFile THEN <<>>
    ELSE [n \in Range(ActiveNames(series)) |->
             IF n = <<"a">> THEN <<"fix", " ", "a", "\n", "\n">> \o Change("a")
             ELSE Change("b")]

\* Series files a root may hold
InitSeries ==
    { <<"a", "\n", "b", "\n">>,
      <<"#", " ", "c", "\n", "a", "\n", "\n", "b", "\n">>,
      <<"a", "\n", "b">>,
      NoFile }

\* Patch changesets a user may have committed: the text after [PATCH], the
\* rest of the description, the file changed
UserPatch(title, body, f) == [title |-> title, body |-> body, file |-> f]

PX == UserPatch(<<" ", "x">>, <<"why", " ", "x">>, "x")

PY == UserPatch(<<" ", "y">>, <<>>, "y")

PSpaced == UserPatch(<<" ", "x", " ", " ", "y">>, <<>>, "y")

PHash == UserPatch(<<" ", "#", "1">>, <<>>, "x")

PA == UserPatch(<<" ", "a">>, <<>>, "x")

InitChains ==
    { <<>>, <<PX>>, <<PX, PY>>, <<PX, PX>>, <<PSpaced>>, <<PHash>>, <<PA>> }

UserPatchDesc(u) ==
    <<"[PATCH]">> \o u.title
        \o (IF u.body # <<>> THEN <<"\n", "\n">> \o u.body ELSE <<>>)

\* A repository: one base changeset (Quahog or plain, public or draft) that
\* holds the series, and a line of draft patch changesets on it
InitCommits(quahog, phase, series, chain) ==
    LET base == NewCommit(IF quahog THEN <<"#QUAHOG", " ", "Import lib">>
                          ELSE <<"Import lib">>,
                          0, phase, series, InitFiles(series), <<>>)
    IN  <<base>> \o [i \in 1..Len(chain) |->
                        NewCommit(UserPatchDesc(chain[i]), i, "draft", series,
                                  InitFiles(series), Change(chain[i].file))]

InitShapes ==
    {[quahog |-> q, phase |-> ph, series |-> s, chain |-> <<>>] :
        q \in BOOLEAN, ph \in {"public", "draft"}, s \in InitSeries}
    \cup
    {[quahog |-> TRUE, phase |-> "draft", series |-> s, chain |-> c] :
        s \in {<<"a", "\n", "b", "\n">>, <<"a", "\n", "b">>}, c \in InitChains}
    \cup
    {[quahog |-> q, phase |-> ph, series |-> <<"a", "\n", "b", "\n">>, chain |-> c] :
        q \in BOOLEAN, ph \in {"public", "draft"}, c \in {<<PX>>, <<PX, PY>>}}
    \cup
    {[quahog |-> TRUE, phase |-> "draft", series |-> NoFile, chain |-> <<PX>>]}

\* The two invocations that may run at the same time
Invocations == {1, 2}

\* An invocation that is not running
Idle == [op |-> "none", prog |-> <<>>, sec |-> "out", intry |-> FALSE, mid |-> FALSE]

NoStep == [p |-> 0, kind |-> "", held |-> TRUE]

\* Nobody holds the repository lock, no invocation runs
NoSched == [holder |-> 0, procs |-> [p \in Invocations |-> Idle], stepped |-> NoStep]

NoCommand ==
    [op |-> "none", args |-> <<>>, outcome |-> "ok", error |-> "",
     pre |-> <<>>, preNarrow |-> {}, raised |-> <<>>, started |-> FALSE,
     info |-> NoInfo]

\* A repository after a fold that put a new base on a Quahog base: the new
\* base holds one more patch than the old one
StackedCommits(phase) ==
    LET s == <<"a", "\n", "b", "\n">>
    IN  <<NewCommit(<<"#QUAHOG", " ", "Import lib">>, 0, phase, s, InitFiles(s), <<>>),
          NewCommit(NewBaseMessage(Root), 1, "draft", s \o <<"x", "\n">>,
                    WithFile(InitFiles(s), <<"x">>, Change("x")), <<>>)>>

\* The working copy is clean: it holds the patches/ directory of its parent
Init ==
    /\ commits \in {InitCommits(sh.quahog, sh.phase, sh.series, sh.chain) :
                        sh \in InitShapes}
                   \cup {StackedCommits(ph) : ph \in {"public", "draft"}}
    /\ wcParent \in {1, Len(commits)}
    /\ wcSeries = commits[wcParent].series
    /\ wcFiles = commits[wcParent].pfiles
    /\ narrow \in {{"g3"}, {"g3"} \cup RootDirs}
    /\ last = NoCommand
    /\ prev = NoCommand
    /\ sched = NoSched

\* The revisions a user can name
VisibleRevs == {r \in Revs(commits) : Visible(commits, r)}

\* A command runs while the graph is within the bound, and the session is
\* followed while its commands succeed: up to the first abort (after which
\* the working copy needs a manual clean-up) or warning.
CanRun == Len(commits) < MaxCommits /\ last.outcome = "ok"

PopFails(count) ==
    {NoFailure}
    \cup {[at |-> a, n |-> n] : a \in {"reverse", "apply"}, n \in 1..count}
    \cup {[at |-> a, n |-> 0] : a \in {"base", "rebase", "restore"}}

PopArgs(from, count, all) == [from |-> from, count |-> count, all |-> all]

\* The invocations of pop: its options, the step that fails, and whether the
\* working copy is dirty or an operation is unfinished
PopInvocations ==
    {[args |-> PopArgs(0, c, FALSE), fail |-> f, dirty |-> FALSE, unf |-> FALSE] :
        c \in 1..MaxCount, f \in PopFails(MaxCount)}
    \cup
    {[args |-> PopArgs(r, c, a), fail |-> NoFailure, dirty |-> FALSE, unf |-> FALSE] :
        r \in {0} \cup VisibleRevs, c \in 0..MaxCount, a \in BOOLEAN}
    \cup
    {[args |-> PopArgs(0, 1, FALSE), fail |-> NoFailure, dirty |-> d, unf |-> u] :
        d \in BOOLEAN, u \in BOOLEAN}

FoldFails ==
    {NoFailure}
    \cup {[at |-> a, n |-> 0] : a \in {"base", "fold", "amend", "restore"}}
    \cup {[at |-> "rebase", n |-> n] : n \in 1..2}

FoldArgs(to, count, all, rev) == [to |-> to, count |-> count, all |-> all, rev |-> rev]

\* The revision sets --rev may name
RevSets == {S \in SUBSET VisibleRevs : Cardinality(S) \in 1..MaxCount}

FoldInvocations ==
    {[args |-> FoldArgs(0, c, FALSE, {}), fail |-> f, dirty |-> FALSE, unf |-> FALSE] :
        c \in 0..MaxCount, f \in FoldFails}
    \cup
    {[args |-> FoldArgs(t, c, a, {}), fail |-> NoFailure, dirty |-> FALSE, unf |-> FALSE] :
        t \in {0} \cup VisibleRevs, c \in {-1, 0}, a \in BOOLEAN}
    \cup
    {[args |-> FoldArgs(t, 0, FALSE, S), fail |-> NoFailure, dirty |-> FALSE, unf |-> FALSE] :
        t \in {0} \cup VisibleRevs, S \in RevSets}
    \cup
    {[args |-> FoldArgs(0, c, a, S), fail |-> NoFailure, dirty |-> FALSE, unf |-> FALSE] :
        c \in {-1, 0, 1}, a \in BOOLEAN, S \in {{MaxOf(VisibleRevs)}}}
    \cup
    {[args |-> FoldArgs(0, 0, FALSE, {}), fail |-> NoFailure, dirty |-> d, unf |-> u] :
        d \in BOOLEAN, u \in BOOLEAN}

\* The state after a command
Done(op, args, res) ==
    /\ commits' = res.repo.commits
    /\ wcParent' = res.repo.wcParent
    /\ wcSeries' = res.repo.wcSeries
    /\ wcFiles' = res.repo.wcFiles
    /\ narrow' = res.narrow
    /\ last' = [op |-> op, args |-> args, outcome |-> res.outcome,
                error |-> res.error, pre |-> Current, preNarrow |-> narrow,
                raised |-> res.raised, started |-> res.started, info |-> res.info]
    /\ prev' = last
    /\ sched' = sched

\* hg qu-pop
Pop ==
    /\ CanRun
    /\ \E inv \in PopInvocations :
       \E res \in {pop(Current, narrow, inv.dirty, inv.unf, inv.args, inv.fail)} :
           Done("pop", inv.args, res)

\* hg qu-fold
Fold ==
    /\ CanRun
    /\ \E inv \in FoldInvocations :
       \E res \in {fold(Current, narrow, inv.dirty, inv.unf, inv.args, inv.fail)} :
           Done("fold", inv.args, res)

Next == Pop \/ Fold

Spec == Init /\ [][Next]_vars

PZ == UserPatch(<<" ", "z">>, <<>>, "z")

\* The parents of the patch changesets of repositories in which a changeset
\* has two patch children: revision i + 1 is a child of revision parents[i]
ForkParents == { <<1, 1>>, <<1, 2, 2>>, <<1, 1, 2>> }

\* A Quahog base and draft patch changesets that branch
ForkedCommits(parents, phase) ==
    LET s == <<"a", "\n", "b", "\n">>
        us == <<PX, PY, PZ>>
    IN  <<NewCommit(<<"#QUAHOG", " ", "Import lib">>, 0, phase, s, InitFiles(s), <<>>)>>
        \o [i \in 1..Len(parents) |->
               NewCommit(UserPatchDesc(us[i]), parents[i], "draft", s,
                         InitFiles(s), Change(us[i].file))]

\* A Quahog base, a draft changeset that is neither Quahog nor a patch on
\* it, and a patch changeset on that
WorkCommits(phase) ==
    LET s == <<"a", "\n", "b", "\n">>
    IN  <<NewCommit(<<"#QUAHOG", " ", "Import lib">>, 0, phase, s, InitFiles(s), <<>>),
          NewCommit(<<"work">>, 1, "draft", s, InitFiles(s), <<>>),
          NewCommit(UserPatchDesc(PX), 2, "draft", s, InitFiles(s), Change(PX.file))>>

\* A patch changeset whose name holds a tab
PTab == UserPatch(<<" ", "x", "\t", "y">>, <<>>, "y")

\* A public Quahog base, a public patch changeset on it and a draft patch
\* changeset on that
PublishedCommits ==
    LET s == <<"a", "\n", "b", "\n">>
    IN  <<NewCommit(<<"#QUAHOG", " ", "Import lib">>, 0, "public", s, InitFiles(s), <<>>),
          NewCommit(UserPatchDesc(PX), 1, "public", s, InitFiles(s), Change(PX.file)),
          NewCommit(UserPatchDesc(PY), 2, "draft", s, InitFiles(s), Change(PY.file))>>

InitForked ==
    /\ commits \in {ForkedCommits(p, ph) : p \in ForkParents, ph \in {"public", "draft"}}
                   \cup {PublishedCommits}
                   \cup {WorkCommits(ph) : ph \in {"public", "draft"}}
                   \cup {InitCommits(TRUE, "draft", <<"a", "\n", "b", "\n">>, <<PTab>>)}
    /\ wcParent \in Revs(commits)
    /\ wcSeries = commits[wcParent].series
    /\ wcFiles = commits[wcParent].pfiles
    /\ narrow \in {{"g3"}, {"g3"} \cup RootDirs}
    /\ last = NoCommand
    /\ prev = NoCommand
    /\ sched = NoSched

\* The commands on repositories whose patch changesets branch
SpecForked == InitForked /\ [][Next]_vars

\* ------------------------------------------------------------------------
\* The patch files pop reads: separated, then canonicalized
\* ------------------------------------------------------------------------

\* What a patch file may have before the root in the path of a header line
HeaderPrefixes ==
    { <<>>, <<"a", "/">>, <<"/", "src", "/">>, <<"a", "/">> \o Root \o <<"/">> }

\* A '---' or '+++' line for file f, with or without the root in its path
Header(marker, pre, withroot) ==
    <<marker, " ">> \o pre \o (IF withroot THEN Root ELSE <<>>) \o <<"/", "f", "\n">>

Hunk == <<"@@", " ", "-1", " ", "+1", " ", "@@", "\n", "+", "f", "\n">>

\* What a diff body may begin with
LeadIns ==
    { <<>>, <<"\n">>, <<"diff --git", " ", "f", "\n">>,
      <<"Index:", " ", "f", "\n", "===", "\n">> }

DiffBodies ==
    {lead \o Header("---", pre, r) \o Header("+++", pre, r) \o Hunk :
        lead \in LeadIns, pre \in HeaderPrefixes, r \in BOOLEAN}

\* Descriptions without a line that starts a diff
Descriptions ==
    { <<>>, <<"fix">>, <<"fix", " ", "\n", "more">>,
      <<"fix", "\n", "\n", "more", " ">>, <<"fix", "\r", "\n", "more">> }

\* The name of the patch file
PatchFile == <<"p">>

\* A patch file as fold lays it out (line 408): the description, an empty
\* line, the diff
InitCodec ==
    /\ commits = <<>>
    /\ wcParent = 0
    /\ wcSeries = SeriesText(<<PatchFile>>)
    /\ \E d \in Descriptions, b \in DiffBodies :
           /\ wcFiles = [n \in {PatchFile} |-> d \o <<"\n", "\n">> \o b]
           /\ last = [NoCommand EXCEPT !.op = "patch file",
                                       !.args = [desc |-> d, body |-> b]]
    /\ narrow = {"g3"}
    /\ prev = NoCommand
    /\ sched = NoSched

\* The result of a function of the codec
Applied(op, args, result) ==
    /\ last' = [NoCommand EXCEPT !.op = op, !.args = args, !.raised = result]
    /\ prev' = last
    /\ UNCHANGED <<commits, wcParent, wcSeries, wcFiles, narrow, sched>>

\* Line 574: patchcontent, patchdesc = _separatepatchdescription(patchcontent)
Separate ==
    /\ last.op = "patch file"
    /\ Applied("_separatepatchdescription", last.args,
               _separatepatchdescription(wcFiles[PatchFile]))

\* Line 575: patchcontent = _canonicalizepatchcontent(patchcontent, rootpath)
Canonicalize ==
    /\ last.op = "_separatepatchdescription"
    /\ Applied("_canonicalizepatchcontent", last.raised[1],
               _canonicalizepatchcontent(last.raised[1], Root))

\* _canonicalizepatchcontent applied to what it returned
CanonicalizeAgain ==
    /\ last.op = "_canonicalizepatchcontent"
    /\ prev.op = "_separatepatchdescription"
    /\ Applied("_canonicalizepatchcontent", last.raised,
               _canonicalizepatchcontent(last.raised, Root))

\* What may stand at the end of an '@@ ' line before its terminator
HunkTrails == { <<>>, <<" ">>, <<" ", "ctx", " ", "\t">> }

\* How a line of a diff may end: the last line may have no terminator
LineEnds == { <<"\n">>, <<"\r", "\n">>, <<"\r">>, <<>> }

\* The diffs of a change to file f below the root, as the backend gives them
\* with noprefix and git
BackendDiffs ==
    {<<"diff --git", " ">> \o Root \o <<"/", "f", " ">> \o Root \o <<"/", "f", "\n">>
        \o <<"---", " ">> \o Root \o <<"/", "f", "\n">>
        \o <<"+++", " ">> \o Root \o <<"/", "f", "\n">>
        \o <<"@@", " ", "-1", " ", "+1", " ", "@@">> \o trail \o end
        \o (IF end = <<>> THEN <<>> ELSE <<"+", "f", "\n">>) :
        trail \in HunkTrails, end \in LineEnds}

\* Lines 403-404: patchdiff = _hgdifftopatch(b''.join(patch.diff(...)), rootpath)
ToQuiltPatch ==
    /\ last.op = "patch file"
    /\ \E diff \in BackendDiffs :
           Applied("_hgdifftopatch", diff, _hgdifftopatch(diff, Root))

NextCodec == Separate \/ Canonicalize \/ CanonicalizeAgain \/ ToQuiltPatch

SpecCodec == InitCodec /\ [][NextCodec]_vars

\* ------------------------------------------------------------------------
\* The linearity check on commit graphs with merges
\* ------------------------------------------------------------------------

\* The parents revision n may have: none, one, or two different ones
ParentChoices(n) ==
    {<<p1, p2>> \in (0..(n - 1)) \X (0..(n - 1)) : p2 = 0 \/ (p1 # 0 /\ p2 # p1)}

RECURSIVE Dags(_)
\* The commit graphs of n changesets, as the parents of each
Dags(n) ==
    IF n = 0 THEN {<<>>}
    ELSE {Append(d, c) : d \in Dags(n - 1), c \in ParentChoices(n)}

DagCommits(d) ==
    [i \in 1..Len(d) |->
        [NewCommit(<<"work">>, d[i][1], "draft", NoFile, <<>>, <<>>)
            EXCEPT !.p2 = d[i][2]]]

InitLinear ==
    /\ commits \in {DagCommits(d) : d \in Dags(MaxDag)}
    /\ wcParent = Len(commits)
    /\ wcSeries = NoFile
    /\ wcFiles = <<>>
    /\ narrow = {"g3"}
    /\ last = NoCommand
    /\ prev = NoCommand
    /\ sched = NoSched

\* _islinear(repo, foldrevset) at line 316, for a set --rev may name
CheckLinear ==
    /\ \E revs \in (SUBSET Revs(commits)) \ {{}} :
           last' = [NoCommand EXCEPT
                       !.op = "_islinear", !.args = revs,
                       !.outcome = IF _islinear(commits, revs) THEN "linear"
                                   ELSE "not linear"]
    /\ UNCHANGED <<commits, wcParent, wcSeries, wcFiles, narrow, prev, sched>>

SpecLinear == InitLinear /\ [][CheckLinear]_vars

\* ------------------------------------------------------------------------
\* Two invocations on one repository, step by step
\* ------------------------------------------------------------------------

RECURSIVE Repeat(_, _)
Repeat(n, steps) == IF n = 0 THEN <<>> ELSE steps \o Repeat(n - 1, steps)

\* _ensurenarrowspec, lines 143-157: a lock and a transaction of its own
NarrowSection(widen) ==
    <<"lock narrowspec">> \o (IF widen THEN <<"narrowspec">> ELSE <<>>) \o <<"unlock">>

\* The steps of pop on n patches, in program order: line 520 (the
\* narrowspec), 527 (the locks and the transaction), 547, 566-590, 595-608,
\* 609-633, 634-639, 640-643, and the end of the with block.
PopProgram(createnew, n, widen) ==
    NarrowSection(widen)
        \o <<"lock", "checkout", "try">>
        \o Repeat(n, <<"series", "patchfile">>)
        \o <<IF createnew THEN "commit" ELSE "amend">>
        \o Repeat(n, <<"commit">>)
        \o <<"rebase", "checkout", "unlock">>

\* The steps of fold of n patches, in program order: line 295 (the
\* narrowspec), 310 (the locks and the transaction), 416-437, 438-440,
\* 441-450, 451-453, 454-461, 462-469, 470-473, and the end of the with
\* block.
FoldProgram(createnew, n, widen) ==
    NarrowSection(widen)
        \o <<"lock">>
        \o (IF createnew THEN <<"checkout", "commit", "rebase">> ELSE <<>>)
        \o <<"fold", "checkout">>
        \o Repeat(n, <<"patchfile">>)
        \o <<"series", "amend", "rebase", "checkout", "unlock">>

Programs ==
    {[op |-> "pop", prog |-> PopProgram(c, n, w)] :
        c \in BOOLEAN, n \in 1..MaxCount, w \in BOOLEAN}
    \cup
    {[op |-> "fold", prog |-> FoldProgram(c, n, w)] :
        c \in BOOLEAN, n \in 1..MaxCount, w \in BOOLEAN}

\* A variant of the repository lock that never makes an invocation wait
NoWait(holder) == TRUE

\* repo.wlock(), repo.lock(): taken when nobody holds them
CanLock(holder) == holder = 0

\* The steps the locks are to keep apart
Mutating == {"series", "patchfile", "commit", "amend", "rebase", "fold", "checkout"}

InitLocked ==
    /\ commits = StackedCommits("draft")
    /\ wcParent = Len(commits)
    /\ wcSeries = commits[wcParent].series
    /\ wcFiles = commits[wcParent].pfiles
    /\ narrow = {"g3"}
    /\ last = NoCommand
    /\ prev = NoCommand
    /\ sched = NoSched

Scheduled(holder, p, proc, stepped) ==
    /\ sched' = [holder |-> holder, procs |-> [sched.procs EXCEPT ![p] = proc],
                 stepped |-> stepped]
    /\ UNCHANGED <<commits, wcParent, wcSeries, wcFiles, narrow, last, prev>>

\* hg qu-pop or hg qu-fold is invoked
Start(p) ==
    /\ sched.procs[p].prog = <<>>
    /\ \E pr \in Programs :
           Scheduled(sched.holder, p, [Idle EXCEPT !.op = pr.op, !.prog = pr.prog],
                     sched.stepped)

\* with repo.wlock(), repo.lock(), repo.transaction(...): lines 144, 310, 527
Acquire(p) ==
    LET proc == sched.procs[p]
    IN  /\ proc.prog # <<>>
        /\ Head(proc.prog) \in {"lock narrowspec", "lock"}
        /\ CanLock(sched.holder)
        /\ Scheduled(p, p,
                     [proc EXCEPT !.prog = Tail(@),
                                  !.sec = IF Head(proc.prog) = "lock" THEN "main"
                                          ELSE "narrow"],
                     sched.stepped)

\* One step of the command
Advance(p) ==
    LET proc == sched.procs[p]
    IN  /\ proc.prog # <<>>
        /\ Head(proc.prog) \notin {"lock narrowspec", "lock", "unlock"}
        /\ IF Head(proc.prog) = "try"
           THEN Scheduled(sched.holder, p,
                          [proc EXCEPT !.prog = Tail(@), !.intry = TRUE],
                          sched.stepped)
           ELSE Scheduled(sched.holder, p,
                          [proc EXCEPT !.prog = Tail(@),
                                       !.mid = @ \/ Head(proc.prog) \in Mutating],
                          [p |-> p, kind |-> Head(proc.prog),
                           held |-> sched.holder = p])

\* A step inside the transaction raises: pop's handler (lines 644-647)
\* writes the series file, then the with block is left
Raise(p) ==
    LET proc == sched.procs[p]
    IN  /\ proc.sec = "main"
        /\ proc.prog # <<>>
        /\ Head(proc.prog) # "unlock"
        /\ Scheduled(sched.holder, p,
                     [proc EXCEPT !.prog = IF proc.intry THEN <<"series", "unlock">>
                                           ELSE <<"unlock">>,
                                  !.intry = FALSE],
                     sched.stepped)

\* The end of the with block: the transaction closes or aborts, the locks
\* are released
Release(p) ==
    LET proc == sched.procs[p]
    IN  /\ proc.prog # <<>>
        /\ Head(proc.prog) = "unlock"
        /\ Scheduled(IF sched.holder = p THEN 0 ELSE sched.holder, p,
                     [proc EXCEPT !.prog = Tail(@), !.sec = "out",
                                  !.intry = FALSE, !.mid = FALSE],
                     sched.stepped)

NextLocked ==
    \E p \in Invocations :
        Start(p) \/ Acquire(p) \/ Advance(p) \/ Raise(p) \/ Release(p)

SpecLocked == InitLocked /\ [][NextLocked]_vars

\* ------------------------------------------------------------------------
\* Properties of the commands
\* ------------------------------------------------------------------------

\* C1: when a step of pop fails after the first rewrite of the series file
\* (the reverse-apply of a patch, the commit or amend of the base, the
\* forward-apply of a popped patch, the rebase of the descendants or the
\* final checkout), the error is raised again rather than swallowed, and at
\* the moment it leaves pop the series file holds the content pop read from
\* it, which is the series file of the base pop checked out.
C1_PopFailureRestoresReadSeries ==
    (last.op = "pop" /\ last.started /\ last.error # "")
        => /\ last.outcome = "abort"
           /\ last.raised.wcSeries = last.info.origseries
           /\ wcSeries = last.info.origseries
           /\ last.info.origseries = last.pre.commits[last.info.resolved].series

\* C1 happens: two patches were taken off the series file, then the
\* forward-apply of one of them failed.
C1_ApplyFailedAfterTwoRewrites ==
    /\ last.op = "pop" /\ last.outcome = "abort"
    /\ last.error = "failed to apply patch"
    /\ Len(last.info.names) = 2
    /\ last.raised.wcSeries = last.info.origseries
    /\ last.raised.wcSeries = last.pre.wcSeries

\* C1, as the specification states it: the series file holds the content it
\* had when pop was invoked.  It does not when --from names a base whose
\* series file differs from the one checked out.
C1_PopFailureRestoresSeries ==
    (last.op = "pop" /\ last.started /\ last.error # "")
        => /\ last.outcome = "abort"
           /\ last.raised.wcSeries = last.pre.wcSeries
           /\ wcSeries = last.pre.wcSeries

\* C2, as the specification states it: when a step of fold from the creation
\* of the base to the final checkout fails, the commit graph, the checkout,
\* the patch files and the series file are all as they were before the fold.
C2_FoldFailureRollsBackEverything ==
    (last.op = "fold" /\ last.outcome = "abort" /\ last.info.chain # <<>>)
        => Current = last.pre

\* The names of the patch changesets a fold resolved, parent to child
FoldedNames ==
    [i \in 1..Len(last.info.chain) |->
        FoldPatchName(last.pre.commits[last.info.chain[i]].desc)]

\* C3, as the specification states it: a successful fold of k >= 1 patch
\* changesets onto base B, for any series file and any names, replaces B and
\* the k changesets by one new changeset with B's description, creates one
\* patch file per changeset, and leaves the series file equal to its prior
\* lines followed by exactly k lines, the names in parent-to-child order.
C3_FoldAddsOneFileAndOneLinePerPatch ==
    (last.op = "fold" /\ last.outcome = "ok" /\ Len(last.info.chain) >= 1)
        => /\ ~commits[last.info.newbase].obsolete
           /\ Latest(commits, last.info.target) = last.info.newbase
           /\ \A i \in 1..Len(last.info.chain) :
                  Latest(commits, last.info.chain[i]) = last.info.newbase
           /\ commits[last.info.newbase].desc =
                  last.raised.commits[last.info.target].desc
           /\ \A i \in 1..Len(last.info.chain) :
                  FoldedNames[i] \in DOMAIN commits[last.info.newbase].pfiles
           /\ Cardinality(Range(FoldedNames)) = Len(last.info.chain)
           /\ SplitLines(commits[last.info.newbase].series) =
                  SplitLines(last.pre.commits[
                      last.info.chain[Len(last.info.chain)]].series)
                  \o FoldedNames

\* C4: a successful pop of k patches, 1 <= k <= the number of active series
\* entries, removes the last k active entries from the series file and
\* their files from patches/, and creates k patch changesets in one line on
\* the created or amended base, in the forward order of the series: the i-th
\* is described "DO NOT SUBMIT [PATCH] <name_i>", then a blank line and the
\* saved description when there is one; the leaf has the last entry's name.
C4_PopRemovesLastAndCommitsInSeriesOrder ==
    LET prior == ActiveNames(last.info.origseries)
        k     == IF last.args.all THEN Len(prior) ELSE last.args.count
        base  == commits[last.info.newbase]
        old   == last.pre.commits[last.info.resolved]
    IN  (last.op = "pop" /\ last.outcome = "ok" /\ 1 <= k /\ k <= Len(prior))
            => /\ ActiveNames(base.series) = SubSeq(prior, 1, Len(prior) - k)
               /\ DOMAIN base.pfiles =
                      DOMAIN old.pfiles
                          \ {prior[i] : i \in (Len(prior) - k + 1)..Len(prior)}
               /\ Len(last.info.created) = k
               /\ \A i \in 1..k :
                      LET c     == commits[last.info.created[i]]
                          name  == prior[Len(prior) - k + i]
                          saved == _separatepatchdescription(old.pfiles[name])[2]
                      IN  /\ ~c.obsolete
                          /\ c.p1 = IF i = 1 THEN last.info.newbase
                                    ELSE last.info.created[i - 1]
                          /\ c.desc = <<"DO NOT SUBMIT", " ", "[PATCH]", " ">>
                                 \o name
                                 \o (IF saved # <<>> THEN <<"\n", "\n">> \o saved
                                     ELSE <<>>)

\* C4 happens: two patches, one of them with a saved description, were
\* popped from a series file that also holds a comment and a blank line.
C4_TwoPatchesPopped ==
    /\ last.op = "pop" /\ last.outcome = "ok"
    /\ Len(last.info.created) = 2
    /\ last.info.origseries = <<"#", " ", "c", "\n", "a", "\n", "\n", "b", "\n">>
    /\ commits[last.info.created[1]].desc =
           <<"DO NOT SUBMIT", " ", "[PATCH]", " ", "a", "\n", "\n", "fix", " ", "a">>

\* C5, as the specification states it: folding N patch changesets and then
\* popping N patches from the resulting base gives back the active series
\* list of before the fold and N patch changesets with the same names in
\* the same order, with equivalent descriptions and diffs.
C5_FoldThenPopRoundTrip ==
    (/\ last.op = "pop" /\ last.outcome = "ok"
     /\ prev.op = "fold" /\ prev.outcome = "ok"
     /\ Len(prev.info.chain) >= 1
     /\ ~last.args.all /\ last.args.count = Len(prev.info.chain)
     /\ last.info.resolved = prev.info.newbase)
        => /\ ActiveNames(commits[last.info.newbase].series) =
                  ActiveNames(prev.pre.commits[
                      prev.info.chain[Len(prev.info.chain)]].series)
           /\ Len(last.info.created) = Len(prev.info.chain)
           /\ \A i \in 1..Len(prev.info.chain) :
                  LET popped == commits[last.info.created[i]]
                      folded == prev.pre.commits[prev.info.chain[i]]
                  IN  /\ Strip(PatchGroup2(popped.desc)) = Strip(PatchGroup2(folded.desc))
                      /\ FoldPatchDesc(popped.desc) = FoldPatchDesc(folded.desc)
                      /\ popped.change = folded.change

\* The blank lines and the lines starting with # of a series file
InertLines(series) ==
    SelectSeq(SplitLines(series), LAMBDA p : p = <<>> \/ p[1] = "#")

\* C6, as the specification states it: the series file as pop rewrites it
\* still holds every blank line and every line starting with # of the
\* original file.
C6_PopKeepsCommentAndBlankLines ==
    (last.op = "pop" /\ last.outcome = "ok" /\ last.started)
        => Range(InertLines(last.info.origseries))
               \subseteq Range(SplitLines(commits[last.info.newbase].series))

\* Every active entry of the series file names one patch file, once, and
\* there is no other patch file
OneToOne(series, files) ==
    /\ \A i, j \in 1..Len(ActiveNames(series)) :
           ActiveNames(series)[i] = ActiveNames(series)[j] => i = j
    /\ Range(ActiveNames(series)) = DOMAIN files

\* C7, as the specification states it: starting with the active series
\* entries and the patch files in 1:1 correspondence, the correspondence
\* holds after any sequence of successful pops and folds, whatever the names
\* of the folded patch changesets.
C7_SeriesMatchesPatchFiles ==
    (last.outcome = "ok" /\ wcSeries # NoFile) => OneToOne(wcSeries, wcFiles)

\* fold was given --rev together with --all or with a positive --count
FlagConflict ==
    /\ last.op = "fold" /\ last.args.rev # {}
    /\ last.args.count >= 0
    /\ last.args.all \/ last.args.count # 0

\* C8: a fold given --rev together with --all or --count aborts with the
\* commit graph, the checkout, the series file and the patch files as they
\* were at invocation; the narrowspec has by then been widened to include
\* the root.
C8_FlagConflictAbortsBeforeRepositoryMutation ==
    FlagConflict
        => /\ last.outcome = "abort"
           /\ last.error \in {"cannot provide both --rev and --all",
                              "cannot provide both --rev and --count"}
           /\ last.raised = last.pre
           /\ Current = last.pre
           /\ narrow = last.preNarrow \cup RootDirs

\* C8 happens: fold --rev --all aborted in a working copy whose narrowspec
\* did not include the root.
C8_ConflictInUnwidenedWorkingCopy ==
    /\ FlagConflict /\ last.args.all
    /\ last.outcome = "abort"
    /\ ~(RootDirs \subseteq last.preNarrow)

\* C8, as the specification states it: at the abort nothing differs from the
\* state at invocation, the narrowed scope of the working copy included.
C8_FlagConflictChangesNothing ==
    FlagConflict
        => /\ last.outcome = "abort"
           /\ last.raised = last.pre
           /\ Current = last.pre
           /\ narrow = last.preNarrow

\* C9, as the specification states it: pop and fold detect a dirty working
\* copy, an unfinished operation and a missing series file before any
\* mutation; when the abort is raised the checkout, the commit graph and the
\* files of the working copy are as at invocation.
C9_PreconditionFailureBeforeMutation ==
    (/\ last.op \in {"pop", "fold"} /\ last.outcome = "abort"
     /\ last.error \in {"uncommitted changes", "unfinished operation", "no such file"})
        => last.raised = last.pre

FoldAsked == IF last.args.count = 0 /\ ~last.args.all THEN 1 ELSE last.args.count

\* C11: in a chain that fold resolved by walking (--count, --all), every
\* changeset the walk stepped from, the target and every member but the last
\* one when the walk stopped at the count, has exactly one patch child, the
\* next member; a walk that ended before the count, or with --all, ended at
\* a member without patch children; and when the target has several patch
\* children the fold aborts as an ambiguous chain.
C11_WalkStepsFromOnePatchChild ==
    (last.op = "fold" /\ last.args.rev = {})
        => /\ \A i \in 1..Len(last.info.chain) :
                  PatchChildren(last.pre.commits,
                                IF i = 1 THEN last.info.resolved
                                ELSE last.info.chain[i - 1])
                      = {last.info.chain[i]}
           /\ (last.info.chain # <<>>
                 /\ (last.args.all \/ Len(last.info.chain) < FoldAsked))
                  => PatchChildren(last.pre.commits,
                                   last.info.chain[Len(last.info.chain)]) = {}
           /\ (last.outcome = "ok" \/ last.error = "no patches to fold")
                  => Cardinality(PatchChildren(last.pre.commits,
                                               last.info.resolved)) <= 1
           /\ last.error = "ambiguous chain: multiple patch children"
                  => \E r \in Revs(last.pre.commits) :
                         /\ IsAncestor(last.pre.commits, last.info.resolved, r)
                         /\ Cardinality(PatchChildren(last.pre.commits, r)) > 1

\* C11 happens: the walk stepped from the target to its one patch child and
\* met two patch children there.
C11_AmbiguousBelowFirstPatch ==
    /\ last.op = "fold"
    /\ last.error = "ambiguous chain: multiple patch children"
    /\ Cardinality(PatchChildren(last.pre.commits, last.info.resolved)) = 1

\* C11, as the specification states it: no member of a chain that fold
\* folds, and not its target, has more than one patch child.  The last
\* member of a chain cut at --count and the members of a --rev chain are not
\* looked at.
C11_NoFoldedMemberHasTwoPatchChildren ==
    (last.op = "fold" /\ last.outcome = "ok")
        => \A m \in Range(last.info.chain) \cup {last.info.resolved} :
               Cardinality(PatchChildren(last.pre.commits, m)) <= 1

\* C12, as the specification states it: a pop that finds no active patch in
\* the series file, with --all or with a --count, raises no error and leaves
\* the commit graph, the series file and the checkout as they were.
C12_PopOfNothingIsNoOp ==
    (/\ last.op = "pop" /\ last.args.count >= 1
     /\ last.info.origseries # NoFile
     /\ ActiveNames(last.info.origseries) = <<>>)
        => /\ last.outcome # "abort"
           /\ commits = last.pre.commits
           /\ wcSeries = last.pre.wcSeries
           /\ wcParent = last.pre.wcParent

\* C13, as the specification states it: after a pop or a fold that raised
\* no error, the warnings included, the changeset checked out is the one
\* that was checked out at the start, or its successor.
C13_CheckoutRestored ==
    (last.op \in {"pop", "fold"} /\ last.outcome \in {"ok", "warn"})
        => \/ wcParent = last.pre.wcParent
           \/ wcParent = Latest(commits, last.pre.wcParent)

RECURSIVE FirstParentAncestor(_, _, _)
\* a is d or is reached from d by first parents
FirstParentAncestor(cs, a, d) ==
    a = d \/ (a < d /\ cs[d].p1 # 0 /\ FirstParentAncestor(cs, a, cs[d].p1))

\* A fold that inferred its target from the checkout: no --to, no --rev
FoldInferredFromCheckout ==
    /\ last.op = "fold" /\ last.args.to = 0 /\ last.args.rev = {}
    /\ last.info.resolved # 0

C15_MutatingStepsUnderTheLock ==
    /\ sched.stepped.kind \in Mutating => sched.stepped.held
    /\ \A p \in Invocations : sched.procs[p].mid => sched.holder = p
    /\ \A p, q \in Invocations :
           (sched.procs[p].mid /\ sched.procs[q].mid) => p = q

\* C15 happens: an invocation has rewritten the series file and goes on
\* while the other one waits for the lock of its transaction.
C15_OneWaitsForTheOther ==
    \E p, q \in Invocations :
        /\ p # q
        /\ sched.procs[p].mid /\ sched.stepped = [p |-> p, kind |-> "series", held |-> TRUE]
        /\ sched.procs[q].prog # <<>> /\ Head(sched.procs[q].prog) = "lock"

RECURSIVE ParentChainTo(_, _, _)
\* The revisions revs can be lined up so that each is a parent of the next,
\* e being the last
ParentChainTo(cs, revs, e) ==
    /\ e \in revs
    /\ \/ revs = {e}
       \/ \E q \in Parents(cs, e) : ParentChainTo(cs, revs \ {e}, q)

\* C16: on every set of revisions of a commit graph, merges included, the
\* linearity check answers true exactly when the set, in topological order,
\* is one chain in which each revision is a parent of the next; so it
\* answers false for two revisions neither of which is a parent of the
\* other, and for a set in which a revision has two children that are not
\* ancestors of one another.
C16_LinearIffOneParentChain ==
    last.op = "_islinear"
        => LET revs == last.args
           IN  /\ last.outcome = "linear"
                      <=> \E e \in revs : ParentChainTo(commits, revs, e)
               /\ (\E a, b \in revs :
                      /\ revs = {a, b} /\ a # b
                      /\ a \notin Parents(commits, b) /\ b \notin Parents(commits, a))
                      => last.outcome = "not linear"
               /\ (\E r, a, b \in revs :
                      /\ r \in Parents(commits, a) /\ r \in Parents(commits, b)
                      /\ ~IsAncestor(commits, a, b) /\ ~IsAncestor(commits, b, a))
                      => last.outcome = "not linear"

\* C16 happens: a chain of three revisions that goes through the second
\* parent of a merge was found linear.
C16_ChainThroughSecondParent ==
    /\ last.op = "_islinear" /\ last.outcome = "linear"
    /\ Cardinality(last.args) = 3
    /\ \E r \in last.args :
           /\ commits[r].p2 \in last.args
           /\ commits[r].p1 \notin last.args

RECURSIVE HyphenateWhitespace(_)
\* The name with every run of whitespace replaced by one hyphen
HyphenateWhitespace(name) ==
    IF name = <<>> THEN <<>>
    ELSE IF name[1] \notin WS THEN <<name[1]>> \o HyphenateWhitespace(Tail(name))
    ELSE LET rest == {i \in 1..Len(name) : name[i] \notin WS}
         IN  IF rest = {} THEN <<"-">>
             ELSE <<"-">> \o HyphenateWhitespace(Drop(name, MinOf(rest) - 1))

\* C17, as the specification states it: the patch file of every patch
\* changeset that fold processes is named by the trimmed name of the
\* changeset with every run of whitespace, tabs included, replaced by one
\* hyphen.
C17_NameHasWhitespaceHyphenated ==
    (last.op = "fold" /\ last.info.names # <<>>)
        => \A i \in 1..Len(last.info.chain) :
               HyphenateWhitespace(
                   Strip(PatchGroup2(last.pre.commits[last.info.chain[i]].desc)))
                   \in Range(last.info.names)

\* C18, as the specification states it: _canonicalizepatchcontent applied to
\* its own result returns that result.
C18_CanonicalizeTwiceIsOnce ==
    (last.op = "_canonicalizepatchcontent" /\ prev.op = "_canonicalizepatchcontent")
        => last.raised = last.args

\* The places in a header line after which the root stands, behind the
\* marker, one whitespace and nothing or a prefix that ends in a slash
RootAt(line) ==
    {e \in 2..Len(line) :
        /\ line[1] \in {"---", "+++"} /\ line[2] \in WS
        /\ (e = 2 \/ line[e] = "/")
        /\ \A j \in 3..e : line[j] \notin WS
        /\ e + Len(Root) <= Len(line)
        /\ SubSeq(line, e + 1, e + Len(Root)) = Root}

\* C19: _canonicalizepatchcontent rewrites every '---' and '+++' line whose
\* path holds the root, directly or behind a directory prefix, by removing
\* the root (its last occurrence of that kind): the marker, its separator
\* and the prefix are kept and the rest of the path follows them; every
\* other line is returned as it is.
C19_CanonicalizeRemovesRootKeepsPrefix ==
    last.op = "_canonicalizepatchcontent"
        => LET in == SplitKeep(last.args)
               out == SplitKeep(last.raised)
           IN  /\ Len(out) = Len(in)
               /\ \A i \in 1..Len(in) :
                      out[i] = IF RootAt(in[i]) = {} THEN in[i]
                               ELSE SubSeq(in[i], 1, MaxOf(RootAt(in[i])))
                                    \o Drop(in[i], MaxOf(RootAt(in[i])) + Len(Root))

\* C19 happens: a header line '--- a/g3/lib/f' was rewritten.
C19_PrefixedRootRewritten ==
    /\ last.op = "_canonicalizepatchcontent"
    /\ \E i \in 1..Len(SplitKeep(last.args)) :
           /\ SplitKeep(last.args)[i] = Header("---", <<"a", "/">>, TRUE)
           /\ SplitKeep(last.raised)[i] = <<"---", " ", "a", "/", "/", "f", "\n">>

\* C19, as the specification states it: the prefix is removed and the root
\* is kept, so that the root follows the marker and its separator.
C19_CanonicalizeStripsPrefixKeepsRoot ==
    last.op = "_canonicalizepatchcontent"
        => \A i \in 1..Len(SplitKeep(last.args)) :
               RootAt(SplitKeep(last.args)[i]) # {}
                   => StartsWith(SplitKeep(last.raised)[i],
                                 SubSeq(SplitKeep(last.args)[i], 1, 2) \o Root)

\* The description with the whitespace at the end of each line removed, the
\* lines joined by a newline
LinesRStripped(desc) ==
    Join([i \in 1..Len(SplitKeep(desc)) |-> RStrip(SplitKeep(desc)[i])], <<"\n">>)

\* The diff body without what it begins with
AfterLeadIn(body, lead) == Drop(body, Len(lead))

\* C20: of a patch file made of a description without diff-start lines, an
\* empty line and a diff body, _separatepatchdescription returns the
\* description with the whitespace at the end of every line removed (and
\* with it the whitespace at its end), and the diff body from its first
\* '--- ', 'diff --git' or 'rename from' line on, or from the second line
\* after an 'Index: ' line on, without leading whitespace.
C20_SeparateReturnsBodyAndStrippedLines ==
    last.op = "_separatepatchdescription"
        => /\ last.raised[2] = RStrip(LinesRStripped(last.args.desc))
           /\ last.raised[1] =
                  IF IsIndexStart(last.args.body)
                  THEN AfterLeadIn(last.args.body, <<"Index:", " ", "f", "\n", "===", "\n">>)
                  ELSE LStrip(last.args.body)

\* C20 happens: a description of two lines, the first ending in a space,
\* was separated from a diff body that begins with a 'diff --git' line.
C20_SeparatedLineEndingInSpace ==
    /\ last.op = "_separatepatchdescription"
    /\ last.args.desc = <<"fix", " ", "\n", "more">>
    /\ StartsWith(last.args.body, <<"diff --git">>)
    /\ last.raised = << last.args.body, <<"fix", "\n", "more">> >>

\* C20, as the specification states it: the description comes back with
\* only the whitespace at its end removed, the diff body with only the
\* whitespace at its beginning removed.
C20_SeparateInvertsLayout ==
    (last.op = "_separatepatchdescription" /\ ~IsIndexStart(last.args.body))
        => last.raised = << LStrip(last.args.body), RStrip(last.args.desc) >>

\* The terminator of a line of splitlines(keepends=True)
Terminator(line) ==
    IF Len(line) >= 2 /\ SubSeq(line, Len(line) - 1, Len(line)) = <<"\r", "\n">>
    THEN <<"\r", "\n">>
    ELSE IF line # <<>> /\ line[Len(line)] \in {"\n", "\r"} THEN <<line[Len(line)]>>
    ELSE <<>>

NotGitLine(line) == ~StartsWith(line, <<"diff --git">>)

\* C21, as the specification states it: _hgdifftopatch returns every line
\* that begins with '@@ ' without its trailing whitespace and with the
\* terminator it had, '\r\n' or '\n', and nothing added.
C21_HunkHeaderKeepsTerminator ==
    last.op = "_hgdifftopatch"
        => LET kept == SelectSeq(SplitKeep(last.args), NotGitLine)
               joined == Join([i \in 1..Len(kept) |->
                                  IF StartsWith(kept[i], <<"@@", " ">>)
                                  THEN RStrip(kept[i]) \o Terminator(kept[i])
                                  ELSE IF StartsWith(kept[i], <<"---", " ">> \o Root)
                                  THEN <<"---", " ", "a">> \o Drop(kept[i], 2 + Len(Root))
                                  ELSE IF StartsWith(kept[i], <<"+++", " ">> \o Root)
                                  THEN <<"+++", " ", "b">> \o Drop(kept[i], 2 + Len(Root))
                                  ELSE kept[i]], <<>>)
           IN  last.raised = joined

\* The non-public children of the chain of the last fold that are not in
\* the chain, in the repository as it was before the fold
ChainChildren ==
    {c \in Revs(last.pre.commits) :
        /\ Visible(last.pre.commits, c)
        /\ last.pre.commits[c].phase # "public"
        /\ \E m \in Range(last.info.chain) : m \in Parents(last.pre.commits, c)}
    \ Range(last.info.chain)

\* C22: the non-public children of the chain members that are not chain
\* members are what fold recorded before it changed anything, and after a
\* fold that succeeded each of them has been replaced by a successor whose
\* parent is the amended base: none is left on a replaced changeset.
C22_ChainChildrenRebasedOntoAmendedBase ==
    (last.op = "fold" /\ last.outcome = "ok")
        => /\ last.info.childrevs = ChainChildren
           /\ \A c \in ChainChildren :
                  /\ commits[c].obsolete
                  /\ ~commits[Latest(commits, c)].obsolete
                  /\ Parents(commits, Latest(commits, c)) = {last.info.newbase}
                  /\ ~commits[last.info.newbase].obsolete

\* C22 happens: a fold that made a new base folded a patch with two
\* children.
C22_TwoChildrenFollowNewBase ==
    /\ last.op = "fold" /\ last.outcome = "ok" /\ last.info.createnew
    /\ Cardinality(ChainChildren) = 2

\* The public changesets of the repository the last command started on
PublicBefore ==
    {c \in Revs(last.pre.commits) : last.pre.commits[c].phase = "public"}

\* C23: no public changeset is ever amended, folded or rebased.  A public
\* changeset is never obsolete and a command leaves it as it was; when the
\* base a command resolved is public and no new base is made on it, or a
\* member of the chain is public, the command rewrites nothing at all.
C23_PublicChangesetsNeverRewritten ==
    /\ \A c \in Revs(commits) :
           commits[c].phase = "public" => ~commits[c].obsolete /\ commits[c].succ = 0
    /\ last.op \in {"pop", "fold"}
           => /\ \A c \in PublicBefore : commits[c] = last.pre.commits[c]
              /\ ( \/ /\ last.info.resolved \in PublicBefore
                       /\ ~last.info.createnew
                    \/ Range(last.info.chain) \cap PublicBefore # {} )
                    => /\ commits = last.pre.commits
                       /\ last.raised.commits \in {last.pre.commits,
                               Commit(Update(last.pre, last.info.resolved),
                                      NewBaseMessage(Root), <<>>).commits}

\* C23 happens: the walk of a fold collected a public patch changeset, and
\* the fold stopped with the new base made and nothing rebased.
C23_PublicPatchCollectedByWalk ==
    /\ last.op = "fold" /\ last.args.rev = {} /\ last.outcome = "abort"
    /\ Range(last.info.chain) \cap PublicBefore # {}
    /\ Len(last.raised.commits) = Len(last.pre.commits) + 1

\* A pop that resolved a public Quahog base stopped before the amend
C23_PopOnPublicBase ==
    /\ last.op = "pop" /\ last.outcome = "abort"
    /\ last.info.resolved \in PublicBefore /\ ~last.info.createnew
    /\ last.error = "base commit failed"

\* A pop with default options that popped patches from a series of distinct
\* names, its base without children before, and then fold --all
PopThenFoldAll ==
    /\ prev.op = "pop" /\ prev.outcome = "ok" /\ prev.args.from = 0
    /\ prev.info.created # <<>>
    /\ \A i, j \in 1..Len(ActiveNames(prev.info.origseries)) :
           ActiveNames(prev.info.origseries)[i] = ActiveNames(prev.info.origseries)[j]
               => i = j
    /\ Children(prev.pre.commits, prev.info.resolved) = {}
    /\ last.op = "fold" /\ last.args = FoldArgs(0, 0, TRUE, {})

\* The fold folded the changesets the pop made and the series lists the
\* names it listed before the pop
FoldedWhatWasPopped ==
    /\ last.outcome = "ok"
    /\ last.info.chain = prev.info.created
    /\ ActiveNames(commits[last.info.newbase].series)
           = ActiveNames(prev.info.origseries)

\* C24: after a pop with default options, on a base that was there or on one
\* the pop made, fold --all from the checkout the pop left folds exactly the
\* popped patch changesets and the series lists the original names in the
\* original order.
C24_PopThenFoldAllRoundTrip == PopThenFoldAll => FoldedWhatWasPopped

\* The round trip of C24 when the pop found its Quahog base
C24_RoundTripOnExistingBase ==
    (PopThenFoldAll /\ ~prev.info.createnew) => FoldedWhatWasPopped

====
